---- MODULE Spec2Model ----
(***************************************************************************)
(* A model of the density-driven adaptive-precision compression engine     *)
(* (src/src/density/density.cpp).                                          *)
(*                                                                         *)
(* Numbers: density values and coordinates are integers; a quotient that   *)
(* the code floors or truncates is computed exactly (\div), so the model   *)
(* has the real-number result of each expression and none of the rounding  *)
(* of float/double arithmetic.                                             *)
(*                                                                         *)
(* Arrays (std::vector, C arrays) are functions over 0..n-1, as the code   *)
(* indexes them; vectors filled by emplace_back are sequences.             *)
(***************************************************************************)
EXTENDS Integers, Sequences, FiniteSets, TLC

VARIABLES
  \* a run of the program on NbRanks processes
  cfg,      \* the JSON configuration, the same file on every rank
  hacc,     \* the particle file: hacc[r] is the partition rank r loads
  d,        \* d[r]: the Density object of rank r
  pc,       \* pc[r]: the collective call rank r is in (an index of Sites),
            \*        0 before the first and NbSites + 1 after the last
  status,   \* status[r]: "running", "hung" (blocked for ever in a collective)
            \*            or "failed" (the process has ended abnormally)
  ncoll,    \* ncoll[r]: how many collectives rank r has called
  comm,     \* the communicator: comm[n][r] is what rank r passed to the n-th
            \* collective called on it
  written,  \* written[r]: the rows the writer read from rank r's columns
  reports,  \* the report files of rank 0
  \* a run of the noise-injection tool on NoiseRanks processes
  noising,  \* the Noising objects, the messages in flight and what was sent
  \* a single member-function call
  obj,      \* the Density object the function is called on
  fcall,    \* the call: [fn, arg, phase], phase "call" before and "ret" after
  fret      \* the value the call returned

runvars == <<cfg, hacc, d, pc, status, ncoll, comm, written, reports, noising>>
fvars == <<obj, fcall, fret>>
vars == <<cfg, hacc, d, pc, status, ncoll, comm, written, reports, noising,
          obj, fcall, fret>>

(***************************************************************************)
(* Bounds of the model                                                     *)
(***************************************************************************)
NbRanks == 2          \* the number of MPI ranks of a run
MaxLocalCount == 12   \* the largest local density count of a generated field
MaxRho == 3           \* the largest density value of an enumerated field
MaxCells == 2         \* the largest cells_per_axis
MaxExtent == 3        \* the largest coords_max - coords_min of an axis
MaxRanks == 4         \* the largest rank count of a constructor call
MaxInputs == 8        \* the largest number of configured density files
FilesPerRank == 2     \* the density files each rank of a run reads

(***************************************************************************)
(* Helpers                                                                 *)
(***************************************************************************)
Max(a, b) == IF a >= b THEN a ELSE b
Min(a, b) == IF a <= b THEN a ELSE b

\* std::vector<T>::resize(n) on an empty vector: n value-initialised elements
Arr(n, v) == [i \in 0..(n - 1) |-> v]
ALen(a) == Cardinality(DOMAIN a)
ArrOfSeq(s) == [i \in 0..(Len(s) - 1) |-> s[i + 1]]
SeqOfArr(a) == [i \in 1..ALen(a) |-> a[i - 1]]

\* std::min_element / std::max_element over a non-empty array
ArrMin(a) == CHOOSE v \in {a[i] : i \in DOMAIN a} : \A i \in DOMAIN a : v <= a[i]
ArrMax(a) == CHOOSE v \in {a[i] : i \in DOMAIN a} : \A i \in DOMAIN a : v >= a[i]

\* INT_MIN, what the conversion of an infinite or NaN double to int gives on
\* x86; also the stand-in for a value read from outside an array
IntMin == -2147483647 - 1
Indeterminate == IntMin

\* a[i], or an indeterminate value when i is outside the array
ReadAt(a, i) == IF i \in DOMAIN a THEN a[i] ELSE Indeterminate

\* the implicit conversion of a bool to int in a comparison with an int
BoolToInt(b) == IF b THEN 1 ELSE 0

(***************************************************************************)
(* Density::Density: the fields as the constructor leaves them, with the   *)
(* density field and the particle columns as cacheData loads them          *)
(***************************************************************************)
NoColumn == Arr(0, 0)

NewDensity(count, adaptive, mn, mx, cells, field) ==
  [ my_rank              |-> 0,
    nb_ranks             |-> 1,
    inputs               |-> << >>,
    cells_per_axis       |-> cells,
    local_rho_count      |-> ALen(field),
    total_rho_count      |-> 0,
    density_field        |-> field,
    nb_bins              |-> count,
    histogram            |-> Arr(count, 0),
    buckets              |-> Arr(count, << >>),
    bits                 |-> Arr(count, 0),
    use_adaptive_binning |-> adaptive,
    min_bits             |-> mn,
    max_bits             |-> mx,
    bin_capacity         |-> 0,
    bin_ranges           |-> NoColumn,
    local_rho_min        |-> 0,
    local_rho_max        |-> 0,
    total_rho_min        |-> 0,
    total_rho_max        |-> 0,
    local_particles      |-> 0,
    total_particles      |-> 0,
    coords               |-> Arr(3, NoColumn),
    velocs               |-> Arr(3, NoColumn),
    index                |-> NoColumn,
    decompressed         |-> Arr(3, << >>),
    local_bytes          |-> 0,
    total_bytes          |-> 0,
    total_count          |-> NoColumn,
    local_count          |-> NoColumn,
    local_histo          |-> NoColumn,
    uid                  |-> << >>,
    local_bytes_blosc    |-> 0,       \* local_bytes_blosc[0] (ENABLE_LOSSLESS)
    kernels              |-> << >>,   \* the calls process made on its kernels
    v                    |-> Arr(3, << >>),
    coords_min           |-> Arr(3, 0),
    coords_max           |-> Arr(3, 0),
    asserts              |-> TRUE,    \* built without NDEBUG: assert() is live
    ub                   |-> FALSE,   \* an out-of-bounds access has happened
    fault                |-> "none" ] \* "assert": a failed assert aborted the rank;
                                      \* "crash": undefined behaviour ended it

(***************************************************************************)
(* Density::assignBits                                                     *)
(***************************************************************************)
\* bool const mode = 2;  a bool initialised from a non-zero int is true
mode == (2 # 0)

\* the first ladder (taken when mode == 1)
LadderOne(i, o) ==
  IF i = 0 THEN o.min_bits
  ELSE IF i < 2 THEN 20
  ELSE IF i < 5 THEN 21
  ELSE IF i < 25 THEN 22
  ELSE IF i < 100 THEN 23
  ELSE IF i < 200 THEN 24
  ELSE IF i < 500 THEN 25
  ELSE IF i < 1200 THEN 26
  ELSE o.max_bits

\* the second ladder (the else branch)
LadderTwo(i, o) ==
  IF i = 0 THEN o.min_bits
  ELSE IF i < 2 THEN 22
  ELSE IF i < 5 THEN 22
  ELSE IF i < 25 THEN 23
  ELSE IF i < 100 THEN 24
  ELSE IF i < 200 THEN 25
  ELSE IF i < 500 THEN 26
  ELSE IF i < 1200 THEN 26
  ELSE o.max_bits

\* the indices the uniform branch writes, each with the value written: the
\* loops up to 1200 run whatever nb_bins is, the last one up to nb_bins
UniformBitWrites(o) ==
  [i \in 0..(Max(1200, o.nb_bins) - 1) |->
     IF BoolToInt(mode) = 1 THEN LadderOne(i, o) ELSE LadderTwo(i, o)]

\* the adaptive branch: values_width groups of nb_values_per_bit slots
AdaptiveBitWrites(o) ==
  LET values_width == 1 + o.max_bits - o.min_bits
      nb_values_per_bit == o.nb_bins \div values_width
  IN [k \in 0..(values_width * nb_values_per_bit - 1) |->
        IF (k \div nb_values_per_bit) < 2
        THEN o.min_bits + (k \div nb_values_per_bit)
        ELSE o.max_bits]

BitWrites(o) ==
  IF ~o.use_adaptive_binning THEN UniformBitWrites(o) ELSE AdaptiveBitWrites(o)

\* a write past the end of the vector 'bits' is undefined behaviour
assignBitsUB(o) == \E i \in DOMAIN BitWrites(o) : i \notin DOMAIN o.bits

assignBits(o) ==
  LET w == BitWrites(o)
  IN [o EXCEPT !.bits = [i \in DOMAIN o.bits |->
                            IF i \in DOMAIN w THEN w[i] ELSE o.bits[i]],
               !.ub = o.ub \/ assignBitsUB(o)]

\* what a call that ran into undefined behaviour can do: go on with the
\* in-bounds effects, or end the process
Outcomes(o, ubHere) ==
  IF ubHere THEN {o, [o EXCEPT !.fault = "crash"]} ELSE {o}

(***************************************************************************)
(* Density::computeDensityBins (the part before its barrier)               *)
(***************************************************************************)
Pow5(k) == k * k * k * k * k

\* the same rounded up instead of truncated
PrinsBinsRoundedUp(n) ==
  CHOOSE k \in {j \in 0..(2 * n + 1) : j * j <= 4 * n + 4 * j} :
    Pow5(k) >= 32 * n * n /\ (k = 0 \/ Pow5(k - 1) < 32 * n * n)

\* static_cast<int>(2 * std::pow(n, 2.0/5)): the cast truncates, so this is
\* the largest k with k^5 <= 32 n^2
PrinsBins(n) ==
  CHOOSE k \in {j \in 0..(2 * n) : j * j <= 4 * n} :
    Pow5(k) <= 32 * n * n /\ Pow5(k + 1) > 32 * n * n

\* the copy left as it is
UnsortedCopy(field) == field

\* std::sort on a copy of the density field
SortedCopy(field) == ArrOfSeq(SortSeq(SeqOfArr(field), LAMBDA a, b : a < b))

\* lines 311-340: the adaptive override of nb_bins and the quantile ranges
adaptBins(o) ==
  IF ~o.use_adaptive_binning THEN o
  ELSE LET nb == PrinsBins(o.local_rho_count)
           cap == o.local_rho_count \div nb
           sorted_densities == SortedCopy(o.density_field)
       IN [o EXCEPT !.nb_bins = nb,
                    !.bin_capacity = cap,
                    !.bin_ranges = [i \in 0..(nb - 1) |-> sorted_densities[i * cap]]]

computeDensityBinsUB(o) == assignBitsUB(adaptBins(o))

computeDensityBins(o) == assignBits(adaptBins(o))

(***************************************************************************)
(* Density::computeFrequencies: the local extents and their all-reduce     *)
(***************************************************************************)
\* lines 236-239, given the values the other ranks contribute
SetMin(S) == CHOOSE v \in S : \A w \in S : v <= w
SetMax(S) == CHOOSE v \in S : \A w \in S : v >= w

computeExtents(o, others) ==
  LET lmin == ArrMin(o.density_field)
      lmax == ArrMax(o.density_field)
  IN [o EXCEPT !.local_rho_min = lmin,
               !.local_rho_max = lmax,
               !.total_rho_min = SetMin({lmin} \cup others),
               !.total_rho_max = SetMax({lmax} \cup others)]

(***************************************************************************)
(* Density::deduceDensityIndex                                             *)
(***************************************************************************)
\* static_cast<int>(std::floor(shifted * n_cells_axis / range))
AxisCell(o, particle, a) ==
  ((particle[a] - o.coords_min[a]) * o.cells_per_axis)
     \div (o.coords_max[a] - o.coords_min[a])

deduceDensityIndex(o, particle) ==
  LET i == AxisCell(o, particle, 0)
      j == AxisCell(o, particle, 1)
      k == AxisCell(o, particle, 2)
  IN i + j * o.cells_per_axis + k * o.cells_per_axis * o.cells_per_axis

(***************************************************************************)
(* Density::deduceBucketIndex                                              *)
(***************************************************************************)
\* assert(rho < local_rho_max), live only in a build with assertions
bucketIndexAsserts(o, rho) == o.asserts /\ ~(rho < o.local_rho_max)

\* lines 422-423: rho divided by the width of the LOCAL extents, times nb_bins
uniformBucketIndex(o, rho) ==
  Min((rho * o.nb_bins) \div (o.local_rho_max - o.local_rho_min), o.nb_bins - 1)

\* the same returning the last matching bin instead of the first
adaptiveBucketIndexLastMatch(o, rho) ==
  IF rho < o.bin_ranges[0] THEN 0
  ELSE LET hits == {i \in 1..(o.nb_bins - 1) :
                      o.bin_ranges[i - 1] <= rho /\ rho <= o.bin_ranges[i]}
       IN IF hits # {}
          THEN CHOOSE i \in hits : \A h \in hits : i >= h
          ELSE o.nb_bins - 1

\* lines 427-435
adaptiveBucketIndex(o, rho) ==
  IF rho < o.bin_ranges[0] THEN 0
  ELSE LET hits == {i \in 1..(o.nb_bins - 1) :
                      o.bin_ranges[i - 1] <= rho /\ rho <= o.bin_ranges[i]}
       IN IF hits # {}
          THEN CHOOSE i \in hits : \A h \in hits : i <= h
          ELSE o.nb_bins - 1

deduceBucketIndex(o, rho) ==
  IF ~o.use_adaptive_binning
  THEN uniformBucketIndex(o, rho)
  ELSE adaptiveBucketIndex(o, rho)

\* a zero local range makes the quotient of line 422 infinite or NaN, and the
\* conversion of such a value to int is undefined
bucketIndexUB(o, rho) ==
  ~o.use_adaptive_binning /\ o.local_rho_max = o.local_rho_min

(***************************************************************************)
(* A run: Density::Density, then Density::run, on every rank.  A rank runs *)
(* from one collective call to the next in one step; Sites lists the       *)
(* collective calls of the program in the order the code reaches them.     *)
(***************************************************************************)
Ranks == 0..(NbRanks - 1)

Site(line, kind, fn, it) == [line |-> line, kind |-> kind, fn |-> fn, it |-> it]

Sites ==
  << Site(97, "allreduce", "Density", 0),
     Site(158, "barrier", "cacheData", 0),
     Site(158, "barrier", "cacheData", 1),
     Site(158, "barrier", "cacheData", 2),
     Site(162, "allreduce", "cacheData", 0),
     Site(177, "barrier", "cacheData", 0),
     Site(177, "barrier", "cacheData", 1),
     Site(177, "barrier", "cacheData", 2),
     Site(188, "barrier", "cacheData", 0),
     Site(217, "barrier", "cacheData", 0),
     Site(344, "barrier", "computeDensityBins", 0),
     Site(238, "allreduce", "computeFrequencies", 0),
     Site(239, "allreduce", "computeFrequencies", 0),
     Site(268, "allreduce", "computeFrequencies", 0),
     Site(279, "barrier", "computeFrequencies", 0),
     Site(523, "barrier", "dumpBitsDistrib", 0),
     Site(456, "barrier", "bucketParticles", 0),
     Site(480, "reduce", "dumpBucketDistrib", 0),
     Site(495, "barrier", "dumpBucketDistrib", 0),
     Site(656, "barrier", "process", 0),
     Site(657, "reduce", "process", 0),
     Site(670, "barrier", "process", 0),
     Site(656, "barrier", "process", 1),
     Site(657, "reduce", "process", 1),
     Site(670, "barrier", "process", 1),
     Site(656, "barrier", "process", 2),
     Site(657, "reduce", "process", 2),
     Site(670, "barrier", "process", 2),
     Site(709, "barrier", "dump", 0),
     Site(714, "cart_create", "dump", 0),
     Site(726, "barrier", "dump", 0),
     Site(750, "barrier", "dump", 0) >>

NbSites == Len(Sites)
\* the position after the last collective: Density::run has returned
Done == NbSites + 1
\* the end of run belongs to dump, its last call
SiteAt(k) == IF k \in 1..NbSites THEN Sites[k] ELSE Site(751, "return", "dump", 0)

\* the collective a rank calls after the one at position k: the code has no
\* branch around any of them
NextSite(o, k) == k + 1

(***************************************************************************)
(* Density::Density                                                        *)
(***************************************************************************)
RECURSIVE SumCounts(_)
SumCounts(files) ==
  IF files = << >> THEN 0 ELSE Head(files).count + SumCounts(Tail(files))

\* the object before its constructor has run
Blank(r, c) ==
  [NewDensity(0, FALSE, 0, 0, 0, NoColumn)
     EXCEPT !.my_rank = r, !.nb_ranks = NbRanks, !.asserts = c.asserts]

\* the dispatch with file_index = i + my_rank
ctorInputsNextFile(o, c) ==
  LET partition_size == Len(c.inputs)
      rank_mismatch == (partition_size < o.nb_ranks)
                         \/ (partition_size % o.nb_ranks # 0)
      offset == partition_size \div o.nb_ranks
      mine == [i \in 1..offset |-> c.inputs[i + o.my_rank]]
      cells == 1 + c.c_max - c.c_min
  IN IF o.asserts /\ ~(cells > 0) THEN [o EXCEPT !.fault = "assert"]
     ELSE IF o.nb_ranks = 1 \/ ~rank_mismatch
     THEN IF o.asserts /\ offset = 0 THEN [o EXCEPT !.fault = "assert"]
          ELSE [o EXCEPT !.cells_per_axis = cells, !.inputs = mine,
                         !.local_rho_count = SumCounts(mine),
                         !.density_field = Arr(SumCounts(mine), 0)]
     ELSE [o EXCEPT !.cells_per_axis = cells, !.fault = "throw"]

\* the dispatch with the test "one input, or a multiple of the rank count"
ctorInputsOneInput(o, c) ==
  LET partition_size == Len(c.inputs)
      offset == partition_size \div o.nb_ranks
      mine == [i \in 1..offset |-> c.inputs[i + o.my_rank * offset]]
      cells == 1 + c.c_max - c.c_min
  IN IF o.asserts /\ ~(cells > 0) THEN [o EXCEPT !.fault = "assert"]
     ELSE IF partition_size = 1 \/ partition_size % o.nb_ranks = 0
     THEN IF o.asserts /\ offset = 0 THEN [o EXCEPT !.fault = "assert"]
          ELSE [o EXCEPT !.cells_per_axis = cells, !.inputs = mine,
                         !.local_rho_count = SumCounts(mine),
                         !.density_field = Arr(SumCounts(mine), 0)]
     ELSE [o EXCEPT !.cells_per_axis = cells, !.fault = "throw"]

\* lines 71-96: the cells per axis and the density files of this rank
ctorInputs(o, c) ==
  LET partition_size == Len(c.inputs)
      rank_mismatch == (partition_size < o.nb_ranks)
                         \/ (partition_size % o.nb_ranks # 0)
      offset == partition_size \div o.nb_ranks
      mine == [i \in 1..offset |-> c.inputs[i + o.my_rank * offset]]
      cells == 1 + c.c_max - c.c_min
  IN IF o.asserts /\ ~(cells > 0) THEN [o EXCEPT !.fault = "assert"]
     ELSE IF o.nb_ranks = 1 \/ ~rank_mismatch
     THEN IF o.asserts /\ offset = 0 THEN [o EXCEPT !.fault = "assert"]
          ELSE [o EXCEPT !.cells_per_axis = cells,
                         !.inputs = mine,
                         !.local_rho_count = SumCounts(mine),
                         !.density_field = Arr(SumCounts(mine), 0)]
     ELSE [o EXCEPT !.cells_per_axis = cells, !.fault = "throw"]

\* the same without the assertions on the bins
ctorBinsUnchecked(o, c) ==
  [o EXCEPT !.nb_bins = c.count,
            !.histogram = Arr(c.count, 0),
            !.buckets = Arr(c.count, << >>),
            !.bits = Arr(c.count, 0),
            !.use_adaptive_binning = c.adaptive,
            !.min_bits = c.min_bits,
            !.max_bits = c.max_bits]

\* lines 103-112: the binning parameters and the arrays sized by bins.count
ctorBins(o, c) ==
  IF o.asserts /\ ~(c.count > 0 /\ c.min_bits > 0 /\ c.max_bits > c.min_bits)
  THEN [o EXCEPT !.fault = "assert"]
  ELSE [o EXCEPT !.nb_bins = c.count,
                 !.histogram = Arr(c.count, 0),
                 !.buckets = Arr(c.count, << >>),
                 !.bits = Arr(c.count, 0),
                 !.use_adaptive_binning = c.adaptive,
                 !.min_bits = c.min_bits,
                 !.max_bits = c.max_bits]

(***************************************************************************)
(* Density::cacheData                                                      *)
(***************************************************************************)
\* lines 144-157: column i of x, y, z
loadCoords(o, f, i) ==
  LET n == IF i = 0 THEN ALen(f.coords[0]) ELSE o.local_particles
  IN [o EXCEPT !.local_particles = n,
               !.coords[i] = [k \in 0..(n - 1) |-> f.coords[i][k]]]

\* lines 164-167
loadExtents(o, f) ==
  [o EXCEPT !.coords_min = [i \in 0..2 |-> f.data_extents[i][1]],
            !.coords_max = [i \in 0..2 |-> f.data_extents[i][2]]]

\* lines 170-176: column i of vx, vy, vz
loadVelocs(o, f, i) == [o EXCEPT !.velocs[i] = f.velocs[i]]

\* lines 180-186
loadIndex(o, f) == [o EXCEPT !.index = f.id]

\* lines 196-215: each file read at the offset the files before it end at
RECURSIVE ReadFiles(_, _, _)
ReadFiles(field, files, offset) ==
  IF files = << >> THEN field
  ELSE LET file == Head(files)
       IN ReadFiles([k \in DOMAIN field |->
                       IF k >= offset /\ k < offset + file.count
                            /\ (k - offset) \in DOMAIN file.data
                       THEN file.data[k - offset] ELSE field[k]],
                    Tail(files), offset + file.count)

loadDensity(o) == [o EXCEPT !.density_field = ReadFiles(o.density_field, o.inputs, 0)]

(***************************************************************************)
(* Density::computeFrequencies, after the extents                          *)
(***************************************************************************)
\* line 254: static_cast<int>((range * relative_value) / capacity), and the
\* single decrement of lines 256-257
histoBin(o, rho) ==
  LET bin_index == ((rho - o.total_rho_min) * o.nb_bins)
                      \div (o.total_rho_max - o.total_rho_min)
  IN IF bin_index >= o.nb_bins THEN bin_index - 1 ELSE bin_index

\* a zero global range makes relative_value NaN: its conversion to int is
\* undefined; so is std::fill over nb_bins slots of a shorter histogram
freqHistoUB(o) ==
  \/ (~o.use_adaptive_binning /\ o.total_rho_max = o.total_rho_min)
  \/ o.nb_bins > ALen(o.histogram)

\* lines 242-266
freqHisto(o) ==
  LET counted(b) == Cardinality({k \in DOMAIN o.density_field :
                                   histoBin(o, o.density_field[k]) = b})
      capacity == o.local_rho_count \div o.nb_bins
  IN [o EXCEPT
        !.histogram = [b \in DOMAIN o.histogram |->
                         IF b < o.nb_bins THEN 0 ELSE o.histogram[b]],
        !.local_histo =
           IF o.use_adaptive_binning THEN Arr(o.nb_bins, capacity)
           ELSE IF o.total_rho_max = o.total_rho_min
           THEN Arr(o.nb_bins, 0)
           ELSE [b \in 0..(o.nb_bins - 1) |-> counted(b)],
        !.ub = o.ub \/ freqHistoUB(o)]

\* the lower bound of bin k as the reports print it, as a fraction
BinBound(o, k) ==
  IF ~o.use_adaptive_binning
  THEN [num |-> o.total_rho_min * o.nb_bins
                  + k * (o.total_rho_max - o.total_rho_min),
        den |-> o.nb_bins]
  ELSE [num |-> o.total_rho_min + ReadAt(o.bin_ranges, k), den |-> 1]

\* Density::dumpHistogram, lines 284-306
dumpHistogram(o) ==
  [k \in 0..(o.nb_bins - 1) |-> <<BinBound(o, k), ReadAt(o.histogram, k)>>]

\* Density::dumpBitsDistrib, lines 501-521
dumpBitsDistrib(o) ==
  [k \in 0..(o.nb_bins - 1) |-> <<BinBound(o, k), ReadAt(o.bits, k)>>]

(***************************************************************************)
(* Density::bucketParticles and Density::dumpBucketDistrib                 *)
(***************************************************************************)
\* lines 447-453 for particle i; g is what the reads outside an array and
\* the undefined conversions give in this execution
bucketOne(o, i, g) ==
  LET particle == [a \in 0..2 |-> o.coords[a][i]]
      density_index == deduceDensityIndex(o, particle)
      outside == density_index \notin DOMAIN o.density_field
      rho == IF outside THEN g.rho ELSE o.density_field[density_index]
      undefined == bucketIndexUB(o, rho)
      bucket_index == IF undefined THEN g.index ELSE deduceBucketIndex(o, rho)
  IN IF o.asserts /\ ~(density_index < o.local_rho_count)
     THEN [o EXCEPT !.fault = "assert"]
     ELSE IF bucketIndexAsserts(o, rho)
     THEN [o EXCEPT !.fault = "assert", !.ub = o.ub \/ outside]
     ELSE IF o.asserts /\ ~(bucket_index < o.nb_bins)
     THEN [o EXCEPT !.fault = "assert", !.ub = o.ub \/ outside \/ undefined]
     ELSE IF bucket_index \in DOMAIN o.buckets
     THEN [o EXCEPT !.buckets[bucket_index] = Append(@, i),
                    !.ub = o.ub \/ outside \/ undefined]
     ELSE [o EXCEPT !.ub = TRUE]   \* emplace_back on no element of buckets

RECURSIVE bucketFrom(_, _, _)
bucketFrom(o, i, g) ==
  IF i >= o.local_particles \/ o.fault # "none" THEN o
  ELSE bucketFrom(bucketOne(o, i, g), i + 1, g)

\* lines 446-454
bucketParticles(o, g) == bucketFrom(o, 0, g)

\* lines 475-478
bucketCounts(o) ==
  [o EXCEPT !.local_count =
     [i \in 0..(o.nb_bins - 1) |->
        IF i \in DOMAIN o.buckets THEN Len(o.buckets[i]) ELSE Indeterminate],
            !.ub = o.ub \/ (o.nb_bins > ALen(o.buckets))]

\* lines 482-493
dumpBucketDistrib(o) ==
  [i \in 0..(o.nb_bins - 1) |-> <<i, ReadAt(o.total_count, i)>>]

(***************************************************************************)
(* Density::process (the build without the lossless stage) and the codec   *)
(***************************************************************************)
\* the lossy codec: what decompress gives back for a value compressed with
\* the parameter "bits"; one value out for each value in
Fpzip(value, nbits) == [value |-> value, bits |-> nbits]
\* the size getBytes reports for n values compressed at that precision
FpzipBytes(n, nbits) == n * nbits
NoFloat == [value |-> Indeterminate, bits |-> Indeterminate]

\* what the fpzip kernel may do with a bucket: work, report zero compressed
\* bytes, leave nothing in raw_deflate, or leave one value too few
Codecs == {"ok", "zero_bytes", "no_output", "short_output"}

\* what getBytes gives after compress
CodecBytes(codec, n, nbits) ==
  IF codec = "zero_bytes" THEN 0 ELSE FpzipBytes(n, nbits)

\* what static_cast<float*>(raw_deflate)[k] reads for k < nb_elems[0]
Deflated(codec, dataset, nbits) ==
  [k \in 1..Len(dataset) |->
     IF codec = "ok" \/ (codec = "short_output" /\ k < Len(dataset))
     THEN Fpzip(dataset[k], nbits) ELSE NoFloat]

\* the size the blosc kernel reports for a stream of n bytes
BloscBytes(n) == (n + 1) \div 2

\* one call on a kernel; a compress call carries its "bits" and its values
KernelCall(op, kernel, j, nbits, values) ==
  [op |-> op, kernel |-> kernel, bin |-> j, bits |-> nbits, values |-> values]

\* the kernel calls of one pass of the loop, in program order: lines 567-593
\* with ENABLE_LOSSLESS, lines 638-649 without
kernelCalls(j, nbits, dataset, lossless) ==
  IF lossless
  THEN << KernelCall("create", "fpzip", j, 0, << >>),
          KernelCall("init", "fpzip", j, 0, << >>),
          KernelCall("compress", "fpzip", j, nbits, dataset),
          KernelCall("create", "blosc", j, 0, << >>),
          KernelCall("init", "blosc", j, 0, << >>),
          KernelCall("compress", "blosc", j, 0, << >>),
          KernelCall("close", "blosc", j, 0, << >>),
          KernelCall("decompress", "fpzip", j, 0, << >>) >>
  ELSE << KernelCall("create", "fpzip", j, 0, << >>),
          KernelCall("init", "fpzip", j, 0, << >>),
          KernelCall("compress", "fpzip", j, nbits, dataset),
          KernelCall("decompress", "fpzip", j, 0, << >>) >>

\* the loop with the values read back from the lossless stage, at no
\* precision
RECURSIVE processBucketsThroughBlosc(_, _, _, _, _)
processBucketsThroughBlosc(o, step, todo, codec, lossless) ==
  IF todo = {} THEN o
  ELSE LET j == SetMin(todo)
           bucket == o.buckets[j]
           nbits == ReadAt(o.bits, j)
           dataset == [k \in 1..Len(bucket) |-> o.coords[step][bucket[k]]]
           bytes == CodecBytes(codec, Len(bucket), nbits)
       IN processBucketsThroughBlosc(
            [o EXCEPT !.decompressed[step] =
                         @ \o Deflated(codec, dataset,
                                       IF lossless THEN 0 ELSE nbits),
                      !.local_bytes = @ + bytes,
                      !.local_bytes_blosc =
                         IF lossless THEN @ + BloscBytes(bytes) ELSE @,
                      !.kernels = @ \o kernelCalls(j, nbits, dataset, lossless),
                      !.ub = o.ub \/ (j \notin DOMAIN o.bits) \/ codec # "ok"],
            step, todo \ {j}, codec, lossless)

\* the bins j < nb_bins whose bucket is not empty (line 622)
Filled(o) ==
  {j \in 0..(o.nb_bins - 1) : j \in DOMAIN o.buckets /\ o.buckets[j] # << >>}

\* the loop over the bins (lines 546-593 with ENABLE_LOSSLESS, 621-654
\* without) for the non-empty bins of 'todo', in increasing order, for
\* component 'step'; the results of the kernels are used unchecked
RECURSIVE processBuckets(_, _, _, _, _)
processBuckets(o, step, todo, codec, lossless) ==
  IF todo = {} THEN o
  ELSE LET j == SetMin(todo)
           bucket == o.buckets[j]
           nbits == ReadAt(o.bits, j)
           dataset == [k \in 1..Len(bucket) |-> o.coords[step][bucket[k]]]
           bytes == CodecBytes(codec, Len(bucket), nbits)
       IN processBuckets(
            [o EXCEPT !.decompressed[step] = @ \o Deflated(codec, dataset, nbits),
                      !.local_bytes = @ + bytes,
                      !.local_bytes_blosc =
                         IF lossless THEN @ + BloscBytes(bytes) ELSE @,
                      !.kernels = @ \o kernelCalls(j, nbits, dataset, lossless),
                      !.ub = o.ub \/ (j \notin DOMAIN o.bits) \/ codec # "ok"],
            step, todo \ {j}, codec, lossless)

\* process up to its first barrier; buckets[j] is read for every j < nb_bins,
\* inside the array or not
process(o, step, codec, lossless) ==
  IF o.asserts /\ ~(step < 6 /\ ALen(o.buckets) > 0)
  THEN [o EXCEPT !.fault = "assert"]
  ELSE processBuckets([o EXCEPT !.local_bytes = 0,
                                !.local_bytes_blosc = 0,
                                !.kernels = << >>,
                                !.ub = o.ub \/ (o.nb_bins > ALen(o.buckets))],
                      step, Filled(o), codec, lossless)

\* the build without ENABLE_LOSSLESS, with kernels that work
processFrom(o, step, todo) == processBuckets(o, step, todo, "ok", FALSE)

processLoop(o, step) == process(o, step, "ok", FALSE)

\* lines 668-669
processEnd(o, step) == [o EXCEPT !.coords[step] = NoColumn]

\* lines 662-663: the sizes rank 0 prints the rate from
compressionReport(o) ==
  [raw |-> o.total_particles * 4, zip |-> o.total_bytes]

(***************************************************************************)
(* Density::dump                                                           *)
(***************************************************************************)
\* the particles of the non-empty buckets of 'todo', bucket after bucket
RECURSIVE Flatten(_, _)
Flatten(buckets, todo) ==
  IF todo = {} THEN << >>
  ELSE LET b == SetMin(todo)
       IN buckets[b] \o Flatten(buckets, todo \ {b})

NonEmpty(buckets) == {b \in DOMAIN buckets : buckets[b] # << >>}

\* the same leaving the velocities in particle order
dumpPermuteUnsorted(o) ==
  LET order == Flatten(o.buckets, NonEmpty(o.buckets))
  IN [o EXCEPT !.density_field = NoColumn,
               !.histogram = NoColumn,
               !.bits = NoColumn,
               !.uid = [n \in 1..Len(order) |-> o.index[order[n]]],
               !.index = NoColumn,
               !.v = [a \in 0..2 |-> SeqOfArr(o.velocs[a])],
               !.velocs = Arr(3, NoColumn),
               !.buckets = Arr(0, << >>)]

\* lines 677-708
dumpPermute(o) ==
  LET order == Flatten(o.buckets, NonEmpty(o.buckets))
  IN [o EXCEPT !.density_field = NoColumn,
               !.histogram = NoColumn,
               !.bits = NoColumn,
               !.uid = [n \in 1..Len(order) |-> o.index[order[n]]],
               !.index = NoColumn,
               !.v = [a \in 0..2 |->
                        [n \in 1..Len(order) |-> o.velocs[a][order[n]]]],
               !.velocs = Arr(3, NoColumn),
               !.buckets = Arr(0, << >>)]

\* element n of a column handed to the writer; the writer reads
\* local_particles elements of each, whatever the column holds
Elem(column, n, missing) == IF n + 1 <= Len(column) THEN column[n + 1] ELSE missing

\* lines 718, 735-742: the rows the writer reads
dumpRows(o) ==
  [n \in 0..(o.local_particles - 1) |->
     [x  |-> Elem(o.decompressed[0], n, NoFloat),
      y  |-> Elem(o.decompressed[1], n, NoFloat),
      z  |-> Elem(o.decompressed[2], n, NoFloat),
      vx |-> Elem(o.v[0], n, Indeterminate),
      vy |-> Elem(o.v[1], n, Indeterminate),
      vz |-> Elem(o.v[2], n, Indeterminate),
      id |-> Elem(o.uid, n, Indeterminate)]]

\* lines 735-741: the variables added to the writer, each with the array
\* whose data() it is given
dumpColumns ==
  << [name |-> "x",  array |-> "decompressed", at |-> 0],
     [name |-> "y",  array |-> "decompressed", at |-> 1],
     [name |-> "z",  array |-> "decompressed", at |-> 2],
     [name |-> "vx", array |-> "v", at |-> 0],
     [name |-> "vy", array |-> "v", at |-> 1],
     [name |-> "vz", array |-> "v", at |-> 2],
     [name |-> "id", array |-> "uid", at |-> 0] >>

dumpWriteUB(o) ==
  \E n \in {Len(o.decompressed[0]), Len(o.decompressed[1]),
            Len(o.decompressed[2]), Len(o.v[0]), Len(o.v[1]), Len(o.v[2]),
            Len(o.uid)} : n < o.local_particles

\* lines 745-748
dumpRelease(o) ==
  [o EXCEPT !.decompressed = Arr(3, << >>), !.ub = o.ub \/ dumpWriteUB(o)]

(***************************************************************************)
(* Single calls: one member function applied to one object.  The objects   *)
(* are the ones the pipeline can hand to the function: built by the        *)
(* constructor from a configuration and a density field, then taken        *)
(* through the steps that precede the call in Density::run.                *)
(***************************************************************************)
BinCounts == {1, 2, 3, 5, 1200, 1201, 2000}      \* bins.count
AdaptiveCounts == {1, 2, 3, 5, 8, 20}            \* bins.count, adaptive runs
IndexCounts == {1, 2, 4}                         \* bins.count, bucket-index calls
LadderBins == 1200           \* the bin count the uniform ladder is written for
BitPairs ==                                      \* <<min_bits, max_bits>>
  {<<mn, mx>> \in {1, 2, 18, 23} \X {2, 3, 5, 20, 28} : mn < mx}

RampField(n, step, base) == [k \in 0..(n - 1) |-> base + k * step]
LocalCounts == (1..MaxLocalCount) \cup {32, 100}
\* sorted fields, and fields out of order (with repeated values when the
\* length is a multiple of 5)
RampFields ==
  {RampField(n, 1, 0) : n \in LocalCounts}
    \cup {[k \in 0..(n - 1) |-> (5 * k + 3) % n] : n \in 1..MaxLocalCount}

\* every density field of 1..3 cells with values in 0..MaxRho
SmallFields ==
  UNION {[0..(n - 1) -> 0..MaxRho] : n \in 1..3}
IndexFields == SmallFields \cup {RampField(8, 1, 0), RampField(8, 1, 4)}
PairFields == {f \in SmallFields : ALen(f) = 2}

\* the values the other ranks contribute to the all-reduce of the extents
OtherRankValues == {{}, {0, MaxRho + 2}}

Positions(cmin, cmax) == [0..2 -> (cmin - 1)..(cmax + 1)]

WithExtents(o, cells, cmin, cmax) ==
  [o EXCEPT !.cells_per_axis = cells,
            !.coords_min = Arr(3, cmin),
            !.coords_max = Arr(3, cmax)]

BinsInputs ==
  {[fn |-> "computeDensityBins", arg |-> 0,
    o |-> NewDensity(c, FALSE, bp[1], bp[2], 1, RampField(1, 1, 0))] :
      c \in BinCounts, bp \in BitPairs}
  \cup
  {[fn |-> "computeDensityBins", arg |-> x[3],
    o |-> NewDensity(x[1], TRUE, x[2][1], x[2][2], 1, x[3])] :
      x \in AdaptiveCounts \X BitPairs \X RampFields}

\* the object deduceBucketIndex is called on: after computeDensityBins (its
\* out-of-bounds writes, if any, survived) and the extents of computeFrequencies
BucketReady(c, adaptive, field, others, asserts) ==
  [computeExtents(computeDensityBins(NewDensity(c, adaptive, 1, 2, 1, field)),
                  others)
     EXCEPT !.asserts = asserts]

BucketIndexCalls(c, adaptive, field, others, asserts) ==
  LET o == BucketReady(c, adaptive, field, others, asserts)
  IN {[fn |-> "deduceBucketIndex", arg |-> field[k], o |-> o] :
        k \in DOMAIN field}

\* every field with the small bin counts, the fields of two cells with a
\* bin count the uniform ladder stays inside
BucketIndexInputs ==
  UNION {BucketIndexCalls(x[1], x[2], x[3], x[4], x[5]) :
           x \in (IndexCounts \X BOOLEAN \X IndexFields \X OtherRankValues \X BOOLEAN)
                   \cup ({LadderBins} \X BOOLEAN \X PairFields \X OtherRankValues \X BOOLEAN)}

DensityIndexInputs ==
  UNION {
    {[fn |-> "deduceDensityIndex", arg |-> p,
      o |-> WithExtents(
              NewDensity(4, FALSE, 1, 2, x[1], Arr(x[1] * x[1] * x[1], 0)),
              x[1], x[2], x[2] + x[3])] : p \in Positions(x[2], x[2] + x[3])} :
      x \in (1..MaxCells) \X {0, 1} \X (1..MaxExtent)}

\* density file i of a configuration: its path, its count and its values
ConfiguredFile(i) ==
  [path |-> i, data |-> Arr(1 + (i % 3), i), count |-> 1 + (i % 3)]

\* <<bins.count, bins.min_bits, bins.max_bits>>
BinsParams == {<<4, 18, 28>>, <<0, 18, 28>>, <<4, 0, 28>>, <<4, 18, 18>>}

\* density.extents.max, with density.extents.min = 0
ExtentsMax == {-1, 0, 1}

ConstructorConfigs ==
  {[inputs |-> [i \in 1..x[1] |-> ConfiguredFile(i)],
    c_min |-> 0, c_max |-> x[2],
    count |-> x[3][1], adaptive |-> FALSE,
    min_bits |-> x[3][2], max_bits |-> x[3][3],
    asserts |-> x[4]] :
      x \in (0..MaxInputs) \X ExtentsMax \X BinsParams \X BOOLEAN}

\* the constructor called on rank r of n ranks
ConstructorInputs ==
  {[fn |-> "Density", arg |-> x[1],
    o |-> [Blank(x[2][2], x[1]) EXCEPT !.nb_ranks = x[2][1]]] :
      x \in ConstructorConfigs
               \X {y \in (1..MaxRanks) \X (0..(MaxRanks - 1)) : y[2] < y[1]}}

\* an object bucketParticles has left: three particles in the bins m gives
\* them (bins 0, 3 and 857 in the calls below), each bucket in increasing particle order, the bits of the ladder
ProcessReady(m) ==
  LET o == assignBits(NewDensity(LadderBins, FALSE, 18, 28, 1, NoColumn))
  IN [o EXCEPT
        !.local_particles = 3,
        !.total_particles = 3,
        !.coords = [a \in 0..2 |-> [i \in 0..2 |-> 10 * (a + 1) + i]],
        !.buckets = [b \in DOMAIN o.buckets |->
                       SelectSeq(<<0, 1, 2>>, LAMBDA i : m[i] = b)]]

\* process(step) in either build, with each behaviour of the kernel
ProcessInputs ==
  {[fn |-> "process",
    arg |-> [step |-> x[2], codec |-> x[3], lossless |-> x[4], bins |-> x[1]],
    o |-> ProcessReady(x[1])] :
      x \in [0..2 -> {0, 3, 857}] \X (0..2) \X Codecs \X BOOLEAN}

FnInputs ==
  BinsInputs \cup BucketIndexInputs \cup DensityIndexInputs
    \cup ConstructorInputs \cup ProcessInputs

NoValue == [kind |-> "none", v |-> 0]
IntValue(n) == [kind |-> "int", v |-> n]

FnInit ==
  \E c \in FnInputs :
    /\ obj = c.o
    /\ fcall = [fn |-> c.fn, arg |-> c.arg, phase |-> "call"]
    /\ fret = NoValue
    /\ cfg = 0 /\ hacc = 0 /\ d = 0 /\ pc = 0 /\ status = 0
    /\ ncoll = 0 /\ comm = 0 /\ written = 0 /\ reports = 0 /\ noising = 0

Returned == [fcall EXCEPT !.phase = "ret"]

CallComputeDensityBins ==
  /\ fcall.fn = "computeDensityBins" /\ fcall.phase = "call"
  /\ \E o2 \in Outcomes(computeDensityBins(obj), computeDensityBinsUB(obj)) :
       obj' = o2
  /\ fcall' = Returned
  /\ fret' = NoValue
  /\ UNCHANGED runvars

CallDeduceBucketIndex ==
  /\ fcall.fn = "deduceBucketIndex" /\ fcall.phase = "call"
  /\ fcall' = Returned
  /\ IF bucketIndexAsserts(obj, fcall.arg)
     THEN obj' = [obj EXCEPT !.fault = "assert"] /\ fret' = NoValue
     ELSE IF bucketIndexUB(obj, fcall.arg)
     THEN /\ obj' = [obj EXCEPT !.ub = TRUE]
          /\ \E n \in {IntMin, obj.nb_bins - 1} : fret' = IntValue(n)
     ELSE /\ obj' = obj
          /\ fret' = IntValue(deduceBucketIndex(obj, fcall.arg))
  /\ UNCHANGED runvars

CallDeduceDensityIndex ==
  /\ fcall.fn = "deduceDensityIndex" /\ fcall.phase = "call"
  /\ fcall' = Returned
  /\ obj' = obj
  /\ fret' = IntValue(deduceDensityIndex(obj, fcall.arg))
  /\ UNCHANGED runvars

\* the whole constructor on one rank; the result is the count the rank
\* passes to the all-reduce of line 97, if it gets there
CallConstructor ==
  /\ fcall.fn = "Density" /\ fcall.phase = "call"
  /\ fcall' = Returned
  /\ LET o1 == ctorInputs(obj, fcall.arg)
     IN IF o1.fault # "none"
        THEN obj' = o1 /\ fret' = NoValue
        ELSE /\ \E others \in {0, MaxLocalCount} :
                  obj' = ctorBins([o1 EXCEPT !.total_rho_count =
                                               o1.local_rho_count + others],
                                  fcall.arg)
             /\ fret' = IntValue(o1.local_rho_count)
  /\ UNCHANGED runvars

\* process up to its first barrier; the result is the byte count the rank
\* passes to the reduction that follows
CallProcess ==
  /\ fcall.fn = "process" /\ fcall.phase = "call"
  /\ fcall' = [fcall EXCEPT !.phase = "ret"]
  /\ obj' = process(obj, fcall.arg.step, fcall.arg.codec, fcall.arg.lossless)
  /\ fret' = IntValue(obj'.local_bytes)
  /\ UNCHANGED runvars

FnNext ==
  \/ CallConstructor
  \/ CallProcess
  \/ CallComputeDensityBins
  \/ CallDeduceBucketIndex
  \/ CallDeduceDensityIndex

SpecFn == FnInit /\ [][FnNext]_vars

(***************************************************************************)
(* The collectives of a run                                                *)
(***************************************************************************)
\* the slot of a rank in one collective, before the rank has called it
Absent == [in |-> FALSE, kind |-> "", line |-> 0, data |-> NoColumn]
Entry(site, data) == [in |-> TRUE, kind |-> site.kind, line |-> site.line, data |-> data]

\* the send buffer a rank passes to the collective at position k
Contribution(o, k) ==
  LET line == SiteAt(k).line
  IN CASE line = 97  -> Arr(1, o.local_rho_count)
       [] line = 162 -> Arr(1, o.local_particles)
       [] line = 238 -> Arr(1, o.local_rho_max)
       [] line = 239 -> Arr(1, o.local_rho_min)
       [] line = 268 -> o.local_histo
       [] line = 480 -> o.local_count
       [] line = 657 -> Arr(1, o.local_bytes)
       [] OTHER      -> NoColumn

\* rank r makes its n-th collective call
Enter(cm, r, n, e) ==
  IF n <= Len(cm) THEN [cm EXCEPT ![n][r] = e]
  ELSE Append(cm, [q \in Ranks |-> IF q = r THEN e ELSE Absent])

Complete(inst) == \A q \in Ranks : inst[q].in

\* every rank called the same operation with the same element count
Matching(inst) ==
  \A q1, q2 \in Ranks :
    /\ inst[q1].kind = inst[q2].kind
    /\ ALen(inst[q1].data) = ALen(inst[q2].data)

\* element i of the reduction from rank q on
RECURSIVE SumFrom(_, _, _)
SumFrom(inst, i, q) ==
  IF q \notin Ranks THEN 0 ELSE inst[q].data[i] + SumFrom(inst, i, q + 1)

\* element i of what the reduction delivers; a rank that passed fewer
\* elements, or an indeterminate one, makes it indeterminate
Reduced(inst, line, i) ==
  LET vals == {ReadAt(inst[q].data, i) : q \in Ranks}
  IN IF Indeterminate \in vals THEN Indeterminate
     ELSE IF line = 238 THEN SetMax(vals)
     ELSE IF line = 239 THEN SetMin(vals)
     ELSE SumFrom(inst, i, 0)

\* the receive buffer of rank r
Result(inst, r) ==
  [i \in DOMAIN inst[r].data |-> Reduced(inst, inst[r].line, i)]

\* the same with barriers that return without waiting for the other ranks
CanLeaveBarrierAtOnce(r) ==
  \/ pc[r] = 0
  \/ /\ pc[r] \in 1..NbSites
     /\ LET inst == comm[ncoll[r]]
        IN \/ Complete(inst)
           \/ inst[r].kind \in {"reduce", "barrier"}

\* MPI_Reduce returns on a non-root rank once its buffer is sent; every other
\* collective of the program returns once every rank has called it
CanLeave(r) ==
  \/ pc[r] = 0
  \/ /\ pc[r] \in 1..NbSites
     /\ LET inst == comm[ncoll[r]]
        IN \/ Complete(inst)
           \/ inst[r].kind = "reduce" /\ r # 0

\* what the collective at position k leaves in the object of the rank
Receive(o, k, inst) ==
  LET line == SiteAt(k).line
      res == Result(inst, o.my_rank)
      root == (o.my_rank = 0)
  IN CASE line = 97  -> [o EXCEPT !.total_rho_count = res[0]]
       [] line = 162 -> [o EXCEPT !.total_particles = res[0]]
       [] line = 238 -> [o EXCEPT !.total_rho_max = res[0]]
       [] line = 239 -> [o EXCEPT !.total_rho_min = res[0]]
       [] line = 268 ->
            [o EXCEPT !.histogram = [b \in DOMAIN o.histogram |->
                                       IF b \in DOMAIN res THEN res[b]
                                       ELSE o.histogram[b]]]
       [] line = 480 /\ root  -> [o EXCEPT !.total_count = res]
       [] line = 657 /\ root  -> [o EXCEPT !.total_bytes = res[0]]
       [] OTHER -> o

(***************************************************************************)
(* The code of a rank between two collectives                              *)
(***************************************************************************)
\* f applied unless the rank has already stopped
Then(o, next) == IF o.fault # "none" THEN o ELSE next

\* lines 229-237
localExtents(o) ==
  IF o.asserts /\ (o.local_rho_count = 0 \/ o.total_rho_count = 0)
  THEN [o EXCEPT !.fault = "assert"]
  ELSE [o EXCEPT !.total_rho_max = 0,
                 !.total_rho_min = 0,
                 !.local_rho_min = ArrMin(o.density_field),
                 !.local_rho_max = ArrMax(o.density_field)]

\* the code rank o.my_rank runs from where it stands to the collective at
\* position k; f is its particle file, g what undefined reads give
LocalCode(o, k, c, f, g) ==
  LET line == SiteAt(k).line
      it == SiteAt(k).it
  IN CASE line = 97  -> ctorInputs(o, c)
       [] line = 158 ->
            IF it = 0
            THEN LET o1 == ctorBins(o, c) IN Then(o1, loadCoords(o1, f, 0))
            ELSE loadCoords(o, f, it)
       [] line = 177 ->
            IF it = 0 THEN loadVelocs(loadExtents(o, f), f, 0)
            ELSE loadVelocs(o, f, it)
       [] line = 188 -> loadIndex(o, f)
       [] line = 217 -> loadDensity(o)
       [] line = 344 -> computeDensityBins(o)
       [] line = 238 -> localExtents(o)
       [] line = 268 -> freqHisto(o)
       [] line = 456 -> bucketParticles(o, g)
       [] line = 480 -> bucketCounts(o)
       [] line = 656 ->
            processLoop([o EXCEPT !.total_bytes = 0], it)
       [] line = 670 -> processEnd(o, it)
       [] line = 709 -> dumpPermute(o)
       [] line = 750 -> dumpRelease(o)
       [] OTHER -> o

\* what rank 0 has printed or written to its report files so far
NoReports ==
  [histogram |-> NoColumn, bits |-> NoColumn, buckets |-> NoColumn,
   rates |-> << >>]

Report(rep, o, k) ==
  LET line == SiteAt(k).line
  IN IF o.my_rank # 0 THEN rep
     ELSE CASE line = 279 -> [rep EXCEPT !.histogram = dumpHistogram(o)]
            [] line = 523 -> [rep EXCEPT !.bits = dumpBitsDistrib(o)]
            [] line = 495 -> [rep EXCEPT !.buckets = dumpBucketDistrib(o)]
            [] line = 670 -> [rep EXCEPT !.rates = Append(@, compressionReport(o))]
            [] OTHER -> rep

\* what the writer of a rank has been handed
NoPartition ==
  [table |-> Arr(0, << >>), rows |-> NoColumn, columns |-> << >>,
   done |-> FALSE]

Handed(w, o, k) ==
  LET line == SiteAt(k).line
  IN CASE line = 709 -> [w EXCEPT !.table = o.buckets]
       [] line = 750 -> [w EXCEPT !.rows = dumpRows(o),
                                  !.columns = dumpColumns, !.done = TRUE]
       [] OTHER -> w

(***************************************************************************)
(* Runs: the inputs                                                        *)
(***************************************************************************)
RunBinCounts == {2, 4, 1200}                   \* bins.count
RunBits == <<18, 28>>                          \* bins.min_bits, bins.max_bits

Particle(x, y, z) == [a \in 0..2 |-> <<x, y, z>>[a + 1]]

\* a density file and the particles of the rank that reads it; the particle
\* box is [0, 2) on each axis and the density grid has 2 cells per axis; one
\* particle stands outside the box, at x = 3
RankInput(field, particles) == [field |-> field, particles |-> particles]

RankInputs ==
  { RankInput(RampField(8, 1, 0),
              <<Particle(0, 0, 0), Particle(1, 1, 1), Particle(0, 1, 0)>>),
    RankInput(RampField(8, 1, 2),
              <<Particle(1, 1, 0), Particle(3, 0, 0)>>),
    RankInput(Arr(8, 1),
              <<Particle(0, 0, 1), Particle(0, 0, 0)>>),
    RankInput(RampField(4, 2, 1),
              <<Particle(1, 0, 0), Particle(0, 0, 0), Particle(0, 1, 0)>>),
    RankInput(RampField(8, 1, 0),
              <<Particle(0, 0, 2), Particle(0, 1, 1)>>) }

\* the partition of the particle file rank r loads
Partition(r, particles) ==
  LET n == Len(particles)
  IN [coords |-> [a \in 0..2 |-> [i \in 0..(n - 1) |-> particles[i + 1][a]]],
      velocs |-> [a \in 0..2 |-> [i \in 0..(n - 1) |-> 10 * (a + 1) + i]],
      id |-> [i \in 0..(n - 1) |-> 100 * (r + 1) + i],
      data_extents |-> [a \in 0..2 |-> <<0, 2>>]]

\* where file j of a rank's FilesPerRank files ends in a field of n values
FileEnd(n, j) == IF j = FilesPerRank THEN n ELSE (j * n) \div (FilesPerRank + 1)

\* file j (from 1) of the files a field is stored in; its path is its place
\* in the configured list
FileOf(field, r, j) ==
  LET from == FileEnd(ALen(field), j - 1)
      to == FileEnd(ALen(field), j)
  IN [path |-> r * FilesPerRank + j,
      data |-> [k \in 0..(to - from - 1) |-> field[from + k]],
      count |-> to - from]

\* the parsed configuration: FilesPerRank density files per rank, in rank
\* order
Config(count, adaptive, asserts, fields) ==
  [inputs |-> [k \in 1..(NbRanks * FilesPerRank) |->
                 FileOf(fields[(k - 1) \div FilesPerRank],
                        (k - 1) \div FilesPerRank,
                        1 + ((k - 1) % FilesPerRank))],
   c_min |-> 0, c_max |-> 1,
   count |-> count, adaptive |-> adaptive,
   min_bits |-> RunBits[1], max_bits |-> RunBits[2],
   asserts |-> asserts]

\* what undefined reads and conversions give in an execution
Garbage == {[rho |-> 0, index |-> IntMin], [rho |-> MaxRho, index |-> 0]}

\* only the loop of bucketParticles reads such values
GarbageAt(k) ==
  IF SiteAt(k).line = 456 THEN Garbage ELSE {[rho |-> 0, index |-> IntMin]}

NoCall == [fn |-> "run", arg |-> 0, phase |-> "call"]

Init ==
  \E count \in RunBinCounts, adaptive \in BOOLEAN, asserts \in BOOLEAN,
     first \in RankInputs, rest \in RankInputs :
    LET input == [r \in Ranks |-> IF r = 0 THEN first ELSE rest]
    IN /\ cfg = Config(count, adaptive, asserts, [r \in Ranks |-> input[r].field])
       /\ hacc = [r \in Ranks |-> Partition(r, input[r].particles)]
       /\ d = [r \in Ranks |-> Blank(r, cfg)]
       /\ pc = [r \in Ranks |-> 0]
       /\ status = [r \in Ranks |-> "running"]
       /\ ncoll = [r \in Ranks |-> 0]
       /\ comm = << >>
       /\ written = [r \in Ranks |-> NoPartition]
       /\ reports = NoReports
       /\ noising = 0
       /\ obj = NoValue /\ fcall = NoCall /\ fret = NoValue

(***************************************************************************)
(* Runs: the steps                                                         *)
(***************************************************************************)
\* mpirun ends the job when a rank aborts
JobAlive == \A q \in Ranks : status[q] # "failed"

\* rank r is not blocked: the collective it is in can return
\* (Runnable); it then returns from it, runs the code of function fn
\* up to its next collective call and makes that call
Runnable(r) ==
  /\ JobAlive
  /\ status[r] = "running"
  /\ pc[r] < Done
  /\ CanLeave(r)

Step(r, fn) ==
  /\ Runnable(r)
  /\ SiteAt(NextSite(d[r], pc[r])).fn = fn
  /\ LET k == pc[r]
         k2 == NextSite(d[r], k)
         o1 == IF k >= 1 /\ Complete(comm[ncoll[r]])
               THEN Receive(d[r], k, comm[ncoll[r]]) ELSE d[r]
     IN \E g \in GarbageAt(k2) :
          LET o2 == LocalCode(o1, k2, cfg, hacc[r], g)
          IN \E o3 \in Outcomes(o2, o2.ub /\ ~d[r].ub) :
               /\ d' = [d EXCEPT ![r] = o3]
               /\ IF o3.fault # "none"
                  THEN /\ status' = [status EXCEPT ![r] = "failed"]
                       /\ UNCHANGED <<pc, ncoll, comm, written, reports>>
                  ELSE /\ pc' = [pc EXCEPT ![r] = k2]
                       /\ written' = [written EXCEPT ![r] = Handed(@, o1, k2)]
                       /\ reports' = Report(reports, o1, k2)
                       /\ IF k2 = Done
                          THEN UNCHANGED <<ncoll, comm>>
                          ELSE /\ ncoll' = [ncoll EXCEPT ![r] = @ + 1]
                               /\ comm' = Enter(comm, r, ncoll[r] + 1,
                                                Entry(SiteAt(k2), Contribution(o3, k2)))
                       /\ UNCHANGED status
  /\ UNCHANGED <<cfg, hacc, noising, obj, fcall, fret>>

\* the collective rank r is in was called with different operations or
\* element counts: an erroneous MPI program
Mismatched(r) ==
  /\ JobAlive
  /\ status[r] = "running"
  /\ pc[r] \in 1..NbSites
  /\ Complete(comm[ncoll[r]])
  /\ ~Matching(comm[ncoll[r]])

\* ... in which the rank may never return from the call
CollectiveHang(r) ==
  /\ Mismatched(r)
  /\ status' = [status EXCEPT ![r] = "hung"]
  /\ UNCHANGED <<cfg, hacc, d, pc, ncoll, comm, written, reports, noising,
               obj, fcall, fret>>

\* ... or the library may end the job
CollectiveAbort(r) ==
  /\ Mismatched(r)
  /\ status' = [status EXCEPT ![r] = "failed"]
  /\ d' = [d EXCEPT ![r].fault = "mpi"]
  /\ UNCHANGED <<cfg, hacc, pc, ncoll, comm, written, reports, noising,
               obj, fcall, fret>>

Construct(r) == Step(r, "Density")
CacheData(r) == Step(r, "cacheData")
ComputeDensityBins(r) == Step(r, "computeDensityBins")
ComputeFrequencies(r) == Step(r, "computeFrequencies")
DumpBitsDistrib(r) == Step(r, "dumpBitsDistrib")
BucketParticles(r) == Step(r, "bucketParticles")
DumpBucketDistrib(r) == Step(r, "dumpBucketDistrib")
Process(r) == Step(r, "process")
Dump(r) == Step(r, "dump")

RankNext(r) ==
  \/ Construct(r)
  \/ CacheData(r)
  \/ ComputeDensityBins(r)
  \/ ComputeFrequencies(r)
  \/ DumpBitsDistrib(r)
  \/ BucketParticles(r)
  \/ DumpBucketDistrib(r)
  \/ Process(r)
  \/ Dump(r)
  \/ CollectiveHang(r)
  \/ CollectiveAbort(r)

Next == \E r \in Ranks : RankNext(r)

Spec == Init /\ [][Next]_vars

(***************************************************************************)
(* Properties of runs (specification Spec)                                 *)
(***************************************************************************)
\* the position of the collective call of source line 'line', iteration 'it'
SitePos(line, it) ==
  CHOOSE k \in 1..NbSites : Sites[k].line = line /\ Sites[k].it = it

\* the run predicates say nothing in the states of single calls
IsRun == fcall.fn = "run"

\* rank r has returned from the loop of bucketParticles and still holds its
\* buckets (dump clears them)
Bucketed(r) ==
  /\ IsRun
  /\ d[r].fault = "none"
  /\ pc[r] >= SitePos(456, 0)
  /\ pc[r] < SitePos(709, 0)

\* where particle i stands in the buckets: <<bucket, position>>
Places(o, i) ==
  UNION {{<<b, n>> : n \in {m \in 1..Len(o.buckets[b]) : o.buckets[b][m] = i}} :
           b \in NonEmpty(o.buckets)}

\* the sum of the bucket lengths
Held(o) ==
  Cardinality(UNION {{<<b, n>> : n \in 1..Len(o.buckets[b])} :
                       b \in NonEmpty(o.buckets)})

\* C1: after bucketParticles every local particle index 0..P_local-1 is in
\* exactly one bucket, and the bucket lengths add up to local_particles, for
\* every density field, bin definition and binning mode.
C1_EveryParticleInOneBucket ==
  \A r \in Ranks :
    Bucketed(r) =>
      /\ \A i \in 0..(d[r].local_particles - 1) :
           Cardinality(Places(d[r], i)) = 1
      /\ Held(d[r]) = d[r].local_particles

\* the source particle of output row n, from the buckets dump walked
RowOrder(r) == Flatten(written[r].table, NonEmpty(written[r].table))

\* row 'row' holds the seven fields of particle i of the partition of rank r
RowOfParticle(r, row, i) ==
  /\ row.x.value = hacc[r].coords[0][i]
  /\ row.y.value = hacc[r].coords[1][i]
  /\ row.z.value = hacc[r].coords[2][i]
  /\ row.vx = hacc[r].velocs[0][i]
  /\ row.vy = hacc[r].velocs[1][i]
  /\ row.vz = hacc[r].velocs[2][i]
  /\ row.id = hacc[r].id[i]

\* C2: every row handed to the writer holds the decompressed x, y, z and the
\* original vx, vy, vz, id of one and the same source particle, and the rows
\* follow the bucket order.
C2_RowsAreParticles ==
  \A r \in Ranks :
    (IsRun /\ written[r].done /\ d[r].fault = "none") =>
      LET order == RowOrder(r)
          rows == written[r].rows
      IN /\ Len(order) = ALen(rows)
         /\ \A n \in DOMAIN rows :
              n + 1 <= Len(order) /\ RowOfParticle(r, rows[n], order[n + 1])

AllDone == \A r \in Ranks : pc[r] = Done
SomeFailed == \E r \in Ranks : status[r] = "failed"

\* the ranks that called a collective called the same operation
SameOperations ==
  IsRun => \A n \in DOMAIN comm : \A q1, q2 \in Ranks :
             (comm[n][q1].in /\ comm[n][q2].in) =>
               /\ comm[n][q1].kind = comm[n][q2].kind
               /\ comm[n][q1].line = comm[n][q2].line

\* some rank can take a step (the enabling condition of Next)
CanStep == \E r \in Ranks : Runnable(r) \/ Mismatched(r)

\* C10: every rank issues the same sequence of collectives, so that, when no
\* rank fails, no rank blocks forever in a collective: as long as some rank
\* has not reached the end of run, some rank can take a step.  (Stated for
\* the runs in which no rank has accessed an array out of bounds.)
C10_NoRankBlocksForever ==
  (IsRun /\ \A r \in Ranks : ~d[r].ub) => (AllDone \/ SomeFailed \/ CanStep)

\* rank r has run assignBits: it has called the barrier that ends
\* computeDensityBins
HasAssignedBits(r) == pc[r] >= SitePos(344, 0)

\* rank r holds the all-reduced extents: it has returned from the all-reduce
\* of line 239
HasGlobalExtents(r) == pc[r] >= SitePos(268, 0)

\* rank r holds the global histogram: it has returned from the all-reduce of
\* line 268
HasGlobalHistogram(r) == pc[r] >= SitePos(279, 0)

\* rank r has run the loop of bucketParticles
HasBucketed(r) == pc[r] >= SitePos(456, 0)

\* C11 (as stated): when a rank has executed assignBits, every rank holds the
\* all-reduced density extents and the global histogram.
C11_StatisticsBeforeAssignBits ==
  IsRun => \A r, q \in Ranks :
             HasAssignedBits(r) => (HasGlobalExtents(q) /\ HasGlobalHistogram(q))

\* C11 (amended): a rank executes assignBits before it computes the extents
\* and the histogram; when a rank has executed bucketParticles, every rank
\* holds the all-reduced extents and the global histogram.
C11_StatisticsBeforeBucketing ==
  IsRun => \A r, q \in Ranks :
             /\ HasGlobalExtents(r) => HasAssignedBits(r)
             /\ HasBucketed(r) => (HasGlobalExtents(q) /\ HasGlobalHistogram(q))

C11_Witness ==
  /\ IsRun
  /\ \E r, q \in Ranks :
       /\ r # q
       /\ HasBucketed(r) /\ ~HasBucketed(q)
       /\ d[r].fault = "none"

(***************************************************************************)
(* Properties of single calls (specification SpecFn)                       *)
(***************************************************************************)
\* the call of fn has returned (it neither aborted nor crashed)
HasReturned(fn) ==
  fcall.fn = fn /\ fcall.phase = "ret" /\ obj.fault = "none"

\* C3: after assignBits every bin's budget is within [min_bits, max_bits],
\* under the uniform ladder and under the adaptive staircase.
C3_BitsWithinBudget ==
  HasReturned("computeDensityBins") =>
    \A b \in 0..(obj.nb_bins - 1) :
      b \in DOMAIN obj.bits =>
        obj.min_bits <= obj.bits[b] /\ obj.bits[b] <= obj.max_bits

\* C4: in uniform mode the allocator leaves the second ladder in bits:
\* min_bits, then 22, 23, 24, 25, 26 from bins 1, 5, 25, 100, 200, and
\* max_bits from bin 1200.  (Stated for the calls that write no slot past
\* the end of bits, bins.count >= 1200.)
C4_SecondLadderShipped ==
  (HasReturned("computeDensityBins") /\ ~obj.use_adaptive_binning /\ ~obj.ub) =>
    \A b \in 0..(obj.nb_bins - 1) :
      b \in DOMAIN obj.bits =>
        obj.bits[b] = IF b = 0 THEN obj.min_bits
                      ELSE IF b <= 4 THEN 22
                      ELSE IF b <= 24 THEN 23
                      ELSE IF b <= 99 THEN 24
                      ELSE IF b <= 199 THEN 25
                      ELSE IF b <= 1199 THEN 26
                      ELSE obj.max_bits

\* C5: in adaptive mode, with V = max_bits - min_bits + 1 and
\* N = nb_bins \div V, slot i*N + j holds min_bits + i for i < 2 and max_bits
\* for 2 <= i < V, and every slot from V*N on holds min_bits.
C5_AdaptiveStaircase ==
  (HasReturned("computeDensityBins") /\ obj.use_adaptive_binning) =>
    LET V == obj.max_bits - obj.min_bits + 1
        N == obj.nb_bins \div V
    IN /\ \A i \in 0..(V - 1) : \A j \in 0..(N - 1) :
            (i * N + j) \in DOMAIN obj.bits =>
               obj.bits[i * N + j] =
                 IF i < 2 THEN obj.min_bits + i ELSE obj.max_bits
       /\ \A t \in (V * N)..(obj.nb_bins - 1) :
            t \in DOMAIN obj.bits => obj.bits[t] = obj.min_bits

\* C6 as stated: in adaptive mode nb_bins becomes the least k with
\* k^5 >= 32 n^2 (the ceiling of 2 n^(2/5)) and bin_capacity = n \div nb_bins.
C6_CeilingBins ==
  (HasReturned("computeDensityBins") /\ obj.use_adaptive_binning) =>
    LET n == obj.local_rho_count
    IN /\ Pow5(obj.nb_bins) >= 32 * n * n
       /\ Pow5(obj.nb_bins - 1) < 32 * n * n
       /\ obj.bin_capacity = n \div obj.nb_bins

\* C6 amended: in adaptive mode nb_bins becomes the greatest k with
\* k^5 <= 32 n^2 (2 n^(2/5) truncated) and bin_capacity the integer quotient
\* of n by nb_bins; n = 100 gives nb_bins = 12 and bin_capacity = 8.
C6_TruncatedBins ==
  (HasReturned("computeDensityBins") /\ obj.use_adaptive_binning) =>
    LET n == obj.local_rho_count
    IN /\ Pow5(obj.nb_bins) <= 32 * n * n
       /\ Pow5(obj.nb_bins + 1) > 32 * n * n
       /\ obj.bin_capacity * obj.nb_bins <= n
       /\ (obj.bin_capacity + 1) * obj.nb_bins > n
       /\ (n = 100 => obj.nb_bins = 12 /\ obj.bin_capacity = 8)

C6_Witness ==
  /\ HasReturned("computeDensityBins") /\ obj.use_adaptive_binning
  /\ obj.local_rho_count = 100 /\ obj.nb_bins = 12 /\ obj.bin_capacity = 8

\* C7: in uniform mode, for a density value v within the global extents,
\* deduceBucketIndex(v) is floor((v - rho_min) / w) clamped to
\* 0..nb_bins-1, with w = (rho_max - rho_min) / nb_bins and rho_min, rho_max
\* the all-reduced extents.  (Stated for the calls that return, on an object
\* with no earlier out-of-bounds write and a local field that is not
\* constant, where every quotient of the code is finite.)
C7_UniformIndexFromGlobalExtents ==
  ( /\ HasReturned("deduceBucketIndex")
    /\ ~obj.use_adaptive_binning /\ ~obj.ub
    /\ obj.local_rho_max > obj.local_rho_min
    /\ obj.total_rho_max > obj.total_rho_min
    /\ obj.total_rho_min <= fcall.arg /\ fcall.arg <= obj.total_rho_max ) =>
    fret = IntValue(
             Max(0, Min(obj.nb_bins - 1,
                        ((fcall.arg - obj.total_rho_min) * obj.nb_bins)
                           \div (obj.total_rho_max - obj.total_rho_min))))

\* bin b admits v: bin_ranges[b-1] <= v <= bin_ranges[b], bin_ranges[-1]
\* being minus infinity
Admits(b, v) ==
  /\ b \in 0..(obj.nb_bins - 1)
  /\ (b = 0 \/ obj.bin_ranges[b - 1] <= v)
  /\ v <= obj.bin_ranges[b]

C9_IndexInsideGrid ==
  ( /\ fcall.fn = "deduceDensityIndex" /\ fcall.phase = "ret"
    /\ \A a \in 0..2 : /\ obj.coords_min[a] <= fcall.arg[a]
                       /\ fcall.arg[a] <= obj.coords_max[a] ) =>
    LET C == obj.cells_per_axis
        cell(a) == ((fcall.arg[a] - obj.coords_min[a]) * C)
                      \div (obj.coords_max[a] - obj.coords_min[a])
    IN /\ \A a \in 0..2 : 0 <= cell(a) /\ cell(a) < C
       /\ fret = IntValue(cell(0) + cell(1) * C + cell(2) * C * C)
       /\ 0 <= fret.v /\ fret.v < obj.local_rho_count

\* the dispatch test of the claim: one input, or a multiple of the rank count
OneOrMultiple(n, ranks) == n = 1 \/ n % ranks = 0

\* the constructor call was ended by a failed assertion
AssertedOut == obj.fault = "assert"

\* the constructor call has ended, by returning or by its exception
ConstructorEnded == fcall.fn = "Density" /\ fcall.phase = "ret" /\ ~AssertedOut

\* C12 (as stated): the constructor accepts a configuration exactly when the
\* number of inputs is 1 or a multiple of the rank count, and rejects every
\* other one before it issues a collective.
C12_AcceptsOneOrMultiple ==
  ConstructorEnded =>
    /\ (obj.fault = "none") <=> OneOrMultiple(Len(fcall.arg.inputs), obj.nb_ranks)
    /\ (obj.fault = "throw") => fret = NoValue

\* C12 (amended): the constructor accepts a configuration exactly when there
\* is one rank or the number of inputs is a multiple of the rank count and not
\* less than it; it rejects every other one, on any rank, before it issues a
\* collective.
C12_AcceptsSingleRankOrMultiple ==
  ConstructorEnded =>
    LET n == Len(fcall.arg.inputs)
    IN /\ (obj.fault = "none") <=>
            (obj.nb_ranks = 1 \/ (n >= obj.nb_ranks /\ n % obj.nb_ranks = 0))
       /\ (obj.fault = "throw") <=> (fret = NoValue)

C12_Witness ==
  /\ ConstructorEnded
  /\ obj.fault = "throw"
  /\ Len(fcall.arg.inputs) = 1
  /\ obj.nb_ranks > 1

\* rank r has returned from its constructor
Constructed(r) == IsRun /\ pc[r] >= SitePos(97, 0) /\ d[r].fault = "none"

\* rank r still holds its density array (dump releases it)
HoldsField(r) == Constructed(r) /\ pc[r] < SitePos(709, 0)

\* rank r has read its density files
Cached(r) == HoldsField(r) /\ pc[r] >= SitePos(217, 0)

\* the paths of the files rank r was given
PathsOf(r) == {d[r].inputs[i].path : i \in 1..Len(d[r].inputs)}

\* the sum of the counts of the first n files of a list
CountBefore(files, n) == SumCounts(SubSeq(files, 1, n))

\* C13: with k inputs per rank, rank r is given inputs r*k .. r*k + k - 1 in
\* that order; the sets of the ranks are pairwise disjoint and cover all
\* inputs; the local cell count is the sum of the counts of the rank's files;
\* and the values of each file stand in the local array at the offset given by
\* the counts of the files before it on that rank.
C13_FilesDealtInOrder ==
  LET k == Len(cfg.inputs) \div NbRanks
  IN /\ \A r \in Ranks :
          Constructed(r) =>
            /\ Len(d[r].inputs) = k
            /\ \A i \in 1..k : d[r].inputs[i] = cfg.inputs[r * k + i]
            /\ d[r].local_rho_count = CountBefore(d[r].inputs, k)
            /\ HoldsField(r) => ALen(d[r].density_field) = d[r].local_rho_count
     /\ \A r, q \in Ranks :
          (Constructed(r) /\ Constructed(q) /\ r # q) =>
            PathsOf(r) \cap PathsOf(q) = {}
     /\ (\A r \in Ranks : Constructed(r)) =>
          UNION {PathsOf(r) : r \in Ranks}
            = {cfg.inputs[i].path : i \in 1..Len(cfg.inputs)}
     /\ \A r \in Ranks :
          Cached(r) =>
            \A i \in 1..k : \A j \in 0..(d[r].inputs[i].count - 1) :
              d[r].density_field[CountBefore(d[r].inputs, i - 1) + j]
                = d[r].inputs[i].data[j]

\* every rank has read two files that are not empty, and the second one does
\* not repeat the first
C13_Witness ==
  /\ IsRun
  /\ \A r \in Ranks :
       /\ Cached(r)
       /\ Len(d[r].inputs) >= 2
       /\ d[r].inputs[1].count > 0
       /\ d[r].inputs[2].count > d[r].inputs[1].count
       /\ d[r].inputs[2].data[0] # d[r].inputs[1].data[0]

\* rank r has computed its histogram from the all-reduced density extents
HasHistogram(r) == IsRun /\ pc[r] >= SitePos(268, 0)

\* C14: when the global density extents are degenerate (rho_max <= rho_min)
\* a rank ends with an error instead of computing anything from the zero
\* range: no rank that has gone on to the histogram has such extents.
C14_DegenerateRangeRejected ==
  \A r \in Ranks :
    (HasHistogram(r) /\ d[r].total_rho_max <= d[r].total_rho_min)
      => d[r].fault # "none"

\* particle i of rank r has a coordinate outside [coords_min, coords_max]
OutsideBox(r, i) ==
  \E a \in 0..2 : \/ hacc[r].coords[a][i] < d[r].coords_min[a]
                  \/ hacc[r].coords[a][i] > d[r].coords_max[a]

\* rank r has read nothing undefined, and every collective so far was called
\* with matching counts
CleanSoFar(r) ==
  /\ ~d[r].ub
  /\ \A n \in DOMAIN comm : Complete(comm[n]) => Matching(comm[n])

\* C15: a particle with a coordinate outside [coords_min, coords_max] is
\* reported as out of the domain and is never silently given a cell and a
\* bucket: a rank that has gone through bucketParticles without an error, and
\* without undefined reads or mismatched collectives, holds no such particle in a
\* bucket.
C15_OutsideParticleNotBucketed ==
  \A r \in Ranks :
    (Bucketed(r) /\ CleanSoFar(r)) =>
      \A i \in 0..(d[r].local_particles - 1) :
        OutsideBox(r, i) => Places(d[r], i) = {}

\* a call of process has come to its first barrier
Processed == fcall.fn = "process" /\ fcall.phase = "ret"

\* C16: when the codec reports zero bytes, fails to decompress or gives back
\* the wrong number of values, process aborts with an error and appends no
\* value of the bucket to the reconstructed component.
C16_CodecFailureAborts ==
  (Processed /\ fcall.arg.codec # "ok") =>
    /\ obj.fault # "none"
    /\ obj.decompressed[fcall.arg.step] = << >>

\* rank r has run the loop of process(step) and not yet the next one
InProcess(r, step) ==
  /\ Bucketed(r)
  /\ pc[r] >= SitePos(656, step)
  /\ (step < 2) => pc[r] < SitePos(656, step + 1)

\* the compress calls rank r made on the lossy kernel, in order
CompressCalls(r) ==
  SelectSeq(d[r].kernels, LAMBDA c : c.op = "compress" /\ c.kernel = "fpzip")

\* C17: the codec is invoked exactly once per non-empty bucket, in increasing
\* bin order, with "bits" = bits[b] and the component's values in the order of
\* the bucket; no call is made for an empty bucket; and the reconstructed
\* component has exactly local_particles elements.
C17_OneCallPerFilledBucket ==
  \A r \in Ranks : \A step \in 0..2 :
    InProcess(r, step) =>
      LET calls == CompressCalls(r)
      IN /\ {calls[n].bin : n \in 1..Len(calls)} = Filled(d[r])
         /\ Len(calls) = Cardinality(Filled(d[r]))
         /\ \A n, m \in 1..Len(calls) : n < m => calls[n].bin < calls[m].bin
         /\ \A n \in 1..Len(calls) :
              LET bucket == d[r].buckets[calls[n].bin]
              IN /\ calls[n].bits = ReadAt(d[r].bits, calls[n].bin)
                 /\ calls[n].values =
                      [k \in 1..Len(bucket) |-> hacc[r].coords[step][bucket[k]]]
         /\ Len(d[r].decompressed[step]) = d[r].local_particles

\* the components rank r has called process for
ProcessedSteps(r) ==
  {Sites[k].it : k \in {n \in 1..Min(pc[r], NbSites) : Sites[n].line = 656}}

\* the float columns the writer of rank r was given
FloatColumns(r) ==
  SelectSeq(written[r].columns, LAMBDA c : c.name # "id")

\* rank r is in dump, between its permutation and the release of its arrays
InDump(r) ==
  /\ IsRun /\ d[r].fault = "none"
  /\ pc[r] >= SitePos(709, 0) /\ pc[r] < SitePos(750, 0)

OnInstance(log, c, n) ==
  log[n].kernel = log[c].kernel /\ log[n].bin = log[c].bin

\* C19: every codec instance process creates is initialised, used and then
\* released (closed) before the instance of the next bucket is created and
\* before process returns, with and without the lossless stage.
C19_KernelsReleased ==
  (Processed /\ obj.fault = "none") =>
    LET log == obj.kernels
    IN \A c \in 1..Len(log) :
         log[c].op = "create" =>
           \E i, u, e \in (c + 1)..Len(log) :
             /\ i < u /\ u < e
             /\ OnInstance(log, c, i) /\ log[i].op = "init"
             /\ OnInstance(log, c, u) /\ log[u].op = "compress"
             /\ OnInstance(log, c, e) /\ log[e].op = "close"
             /\ \A n \in (c + 1)..e : log[n].bin = log[c].bin

\* the same call of process in the build without the lossless stage
LossyOnly ==
  process(ProcessReady(fcall.arg.bins), fcall.arg.step, fcall.arg.codec, FALSE)

AllEntered(line, it) == \A q \in Ranks : pc[q] >= SitePos(line, it)

\* the number of particles the ranks from q on hold in bucket i
RECURSIVE CountFrom(_, _)
CountFrom(i, q) ==
  IF q \notin Ranks THEN 0 ELSE ReadAt(d[q].local_count, i) + CountFrom(i, q + 1)

\* C21: rank 0 writes each report (histogram, bits table, bucket counts,
\* compression rate) only after every rank has entered the collective that
\* produces or precedes the reported values, and the bucket counts it
\* writes are the sums over all ranks, not values read before the reduction.
C21_ReportsAfterReduction ==
  IsRun =>
    /\ reports.histogram # NoColumn => AllEntered(268, 0)
    /\ reports.bits # NoColumn => AllEntered(279, 0)
    /\ reports.buckets # NoColumn =>
         /\ AllEntered(480, 0)
         /\ (\A q \in Ranks : CleanSoFar(q)) =>
              \A i \in DOMAIN reports.buckets :
                reports.buckets[i][2] = CountFrom(i, 0)
    /\ \A n \in 1..Len(reports.rates) : AllEntered(657, n - 1)

\* rank 0 has written the three tables and a rate, in a run without
\* undefined reads, while another rank is still behind it
C21_Witness ==
  /\ IsRun
  /\ reports.histogram # NoColumn /\ reports.bits # NoColumn
  /\ reports.buckets # NoColumn /\ Len(reports.rates) >= 1
  /\ \A q \in Ranks : CleanSoFar(q)
  /\ \E i \in DOMAIN reports.buckets : reports.buckets[i][2] > 1
  /\ \E q \in Ranks : pc[q] < pc[0]

\* a constructor call has ended, in any way
ConstructorDone == fcall.fn = "Density" /\ fcall.phase = "ret"

\* the configuration breaks c_max > c_min, min_bits > 0 or max_bits > min_bits
BreaksValidation(c) ==
  c.c_max <= c.c_min \/ c.min_bits <= 0 \/ c.max_bits <= c.min_bits

\* the configuration fails one of the constructor's own assertions on the
\* extents and the bins
FailsAssertion(c) ==
  1 + c.c_max - c.c_min <= 0 \/ c.count <= 0
    \/ c.min_bits <= 0 \/ c.max_bits <= c.min_bits

HistogramReady ==
  /\ IsRun /\ ~cfg.adaptive
  /\ \A q \in Ranks :
       /\ d[q].fault = "none"
       /\ pc[q] >= SitePos(279, 0) /\ pc[q] < SitePos(709, 0)

\* the bin of the claim: floor(((v - rho_min) / (rho_max - rho_min)) * nb_bins)
\* clamped to nb_bins - 1
ClampedBin(o, v) ==
  Min(((v - o.total_rho_min) * o.nb_bins)
        \div (o.total_rho_max - o.total_rho_min), o.nb_bins - 1)

\* the number of density values of the ranks from q on that fall in bin b
RECURSIVE ValuesInBin(_, _)
ValuesInBin(b, q) ==
  IF q \notin Ranks THEN 0
  ELSE Cardinality({k \in DOMAIN d[q].density_field :
                      ClampedBin(d[q], d[q].density_field[k]) = b})
         + ValuesInBin(b, q + 1)

\* the sum of the entries of a histogram at the bins of 'todo'
RECURSIVE HistogramSum(_, _)
HistogramSum(h, todo) ==
  IF todo = {} THEN 0
  ELSE LET b == SetMin(todo) IN h[b] + HistogramSum(h, todo \ {b})

\* the bins below nb_bins with a count
Counted(o) == {b \in 0..(o.nb_bins - 1) : o.histogram[b] # 0}

\* C23: in uniform mode, after computeFrequencies, every rank holds the same
\* global histogram, its entries sum to total_rho_count (no count went to an
\* index outside [0, nb_bins)), and histogram[b] is the number of density
\* values of all ranks whose clamped bin is b.
C23_UniformHistogram ==
  HistogramReady =>
    \A r \in Ranks :
      /\ d[r].histogram = d[0].histogram
      /\ HistogramSum(d[r].histogram, Counted(d[r])) = d[r].total_rho_count
      /\ \A b \in 0..(d[r].nb_bins - 1) : d[r].histogram[b] = ValuesInBin(b, 0)

\* the value at place i (from 0) of the field in ascending order
OrderStatistic(field, i) ==
  CHOOSE v \in {field[k] : k \in DOMAIN field} :
    /\ Cardinality({k \in DOMAIN field : field[k] < v}) <= i
    /\ i < Cardinality({k \in DOMAIN field : field[k] <= v})

\* C24: in adaptive mode, after computeDensityBins, bin_ranges has nb_bins
\* entries, bin_ranges[b] is the density at place b * bin_capacity of the
\* sorted field, every such place is within [0, local_rho_count), bin_ranges
\* is non-decreasing, bin_ranges[0] is the minimum of the local field, and
\* the density field is the one the call was given.
C24_QuantileRanges ==
  (HasReturned("computeDensityBins") /\ obj.use_adaptive_binning) =>
    /\ ALen(obj.bin_ranges) = obj.nb_bins
    /\ \A b \in 0..(obj.nb_bins - 1) :
         /\ b * obj.bin_capacity >= 0
         /\ b * obj.bin_capacity < obj.local_rho_count
         /\ obj.bin_ranges[b] = OrderStatistic(fcall.arg, b * obj.bin_capacity)
    /\ \A b \in 1..(obj.nb_bins - 1) : obj.bin_ranges[b - 1] <= obj.bin_ranges[b]
    /\ obj.bin_ranges[0] = ArrMin(fcall.arg)
    /\ obj.density_field = fcall.arg

\* a field that was out of order, with several values for each bin
C24_Witness ==
  /\ HasReturned("computeDensityBins") /\ obj.use_adaptive_binning
  /\ obj.bin_capacity >= 2
  /\ obj.density_field[0] > obj.density_field[1]
  /\ obj.bin_ranges[0] < obj.bin_ranges[obj.nb_bins - 1]

\* the local density values are pairwise distinct
DistinctValues(field) ==
  \A k1, k2 \in DOMAIN field : k1 # k2 => field[k1] # field[k2]

\* C25: in adaptive mode, when the local density values are pairwise distinct
\* and local_rho_count is a multiple of nb_bins, deduceBucketIndex puts
\* exactly bin_capacity of the local density values in each of the nb_bins
\* bins.
C25_EqualWorkload ==
  (/\ HasReturned("computeDensityBins") /\ obj.use_adaptive_binning
   /\ DistinctValues(obj.density_field)
   /\ obj.local_rho_count % obj.nb_bins = 0) =>
    \A b \in 0..(obj.nb_bins - 1) :
      Cardinality({k \in DOMAIN obj.density_field :
                     adaptiveBucketIndex(obj, obj.density_field[k]) = b})
        = obj.bin_capacity

\* C26: after assignBits the budget never decreases with the bin index:
\* bits[b1] <= bits[b2] for all b1 < b2 < nb_bins, under the uniform ladder
\* and under the adaptive staircase.  (Stated for the calls that write no
\* slot past the end of bits.)
C26_BitsNonDecreasing ==
  (HasReturned("computeDensityBins") /\ ~obj.ub) =>
    \A b2 \in 1..(obj.nb_bins - 1) :
      (b2 \in DOMAIN obj.bits /\ (b2 - 1) \in DOMAIN obj.bits) =>
        obj.bits[b2 - 1] <= obj.bits[b2]

\* every collective the ranks have all entered was called with matching counts
CountsAgree == \A n \in DOMAIN comm : Complete(comm[n]) => Matching(comm[n])

\* C27: at every step of run every access to bits, buckets and histogram uses
\* an index within the array: no rank that is still running has read or
\* written past the end of one of them (in the runs whose collectives were
\* called with matching counts).
C27_AccessesInBounds ==
  (IsRun /\ CountsAgree) =>
    \A r \in Ranks : d[r].fault = "none" => ~d[r].ub

\* C28: at the collectives whose element count is nb_bins (the all-reduce of
\* line 268 and the reduce of line 480) every rank passes the same count, in
\* uniform and in adaptive mode.  (Stated for the runs in which no rank has
\* accessed an array out of bounds.)
C28_SameBinCount ==
  (IsRun /\ \A r \in Ranks : ~d[r].ub) =>
    \A n \in DOMAIN comm : \A q1, q2 \in Ranks :
      (/\ comm[n][q1].in /\ comm[n][q2].in
       /\ comm[n][q1].line \in {268, 480}) =>
         ALen(comm[n][q1].data) = ALen(comm[n][q2].data)

(***************************************************************************)
(* Noising::run: the loop over the scalars, from the state cache() and the *)
(* first all-reduce leave, up to the call of dump                          *)
(***************************************************************************)
NoiseRanks == 3        \* the number of MPI ranks of a noising run
MaxNoiseCount == 1     \* the largest local dataset size
MaxScalars == 2        \* the largest number of scalars

NoisingRanks == 0..(NoiseRanks - 1)
densityvars ==
  <<cfg, hacc, d, pc, status, ncoll, comm, written, reports, obj, fcall, fret>>

\* what distrib(engine) can return for the range [0, 4]: a value below
\* dist_min, one inside the range, one above dist_max
GeneratedValues == {-2, 1, 6}
Generated(n) == [0..(n - 1) -> GeneratedValues]

\* the conversion of a quotient to int truncates towards zero
TruncQuot(a, b) == IF a >= 0 THEN a \div b ELSE -((-a) \div b)

NewNoising(r, n) ==
  [ my_rank     |-> r,
    nb_ranks    |-> NoiseRanks,
    local_count |-> n,          \* dataset[i].size(), the same for every scalar
    field       |-> 0,          \* the loop variable i of run
    at          |-> "run",      \* the blocking call the rank is in
    ncoll       |-> 0,          \* how many collectives the rank has called
    nb_per_rank |-> NoColumn,
    noise       |-> NoColumn,
    dest        |-> 0,          \* the loop variable i of computeGaussianNoise
    local_histo |-> NoColumn,
    histo       |-> NoColumn,   \* histo[0], percentages as count / of
    ub          |-> FALSE,      \* local_histo was accessed out of bounds
    fault       |-> "none" ]

NoisingConfigs ==
  [num_scalars : 1..MaxScalars, num_bins : {1, 2}, dist_min : {0},
   dist_max : {4}, asserts : BOOLEAN,
   eager : BOOLEAN]     \* MPI_Send returns before the message is received

NoisingInit ==
  /\ \E c \in NoisingConfigs, n \in [NoisingRanks -> 0..MaxNoiseCount] :
       noising = [conf  |-> c,
                  rank  |-> [r \in NoisingRanks |-> NewNoising(r, n[r])],
                  msgs  |-> [r \in NoisingRanks |-> << >>],
                  sends |-> << >>,
                  recvs |-> [r \in NoisingRanks |-> << >>]]
  /\ cfg = 0 /\ hacc = 0 /\ d = 0 /\ pc = 0 /\ status = 0
  /\ ncoll = 0 /\ comm = 0 /\ written = 0 /\ reports = 0
  /\ obj = 0 /\ fret = NoValue
  /\ fcall = [fn |-> "Noising::run", arg |-> 0, phase |-> "call"]

\* no process has ended abnormally (an abort ends the whole job)
NoisingAlive == \A q \in NoisingRanks : noising.rank[q].fault = "none"

\* every rank has called the collective rank r is in
AllIn(r) ==
  \A q \in NoisingRanks : noising.rank[q].ncoll >= noising.rank[r].ncoll

\* rank r calls the next collective, at source line 'line'
EnterCollective(o, line) == [o EXCEPT !.at = line, !.ncoll = o.ncoll + 1]

\* computeGaussianNoise, line 182: the rank calls MPI_Gather
CallGather(r) ==
  LET o == noising.rank[r]
  IN /\ NoisingAlive /\ o.at = "run" /\ o.field < noising.conf.num_scalars
     /\ noising' = [noising EXCEPT !.rank[r] = EnterCollective(o, "gather182")]
     /\ UNCHANGED densityvars

\* the root returns from MPI_Gather when every rank has called it, another
\* rank as soon as it has called it
CanLeaveGather(r) ==
  /\ NoisingAlive /\ noising.rank[r].at = "gather182"
  /\ r = 0 => AllIn(r)

\* lines 184-198: noise(nb_local), and on the root the generation of its own
\* values
LeaveGather(r) ==
  LET o == noising.rank[r]
  IN /\ CanLeaveGather(r)
     /\ IF r = 0
        THEN \E values \in Generated(o.local_count) :
               noising' = [noising EXCEPT !.rank[r] =
                 [o EXCEPT !.nb_per_rank = [q \in NoisingRanks |->
                                              noising.rank[q].local_count],
                           !.noise = values, !.dest = 1, !.at = "send207"]]
        ELSE noising' = [noising EXCEPT !.rank[r] =
               [o EXCEPT !.noise = Arr(o.local_count, 0), !.at = "recv210"]]
     /\ UNCHANGED densityvars

\* the MPI_Send to rank i - 1 has returned: at once when the message is
\* buffered, else when rank i - 1 has received it
SendReturned(i) ==
  i = 1 \/ noising.conf.eager \/ noising.msgs[i - 1] = << >>

\* the count of the message to rank i, line 207
sendCountOwn(o, i) == o.nb_per_rank[0]
sendCount(o, i) == o.nb_per_rank[i]

CanSend(r) ==
  /\ NoisingAlive /\ r = 0 /\ noising.rank[r].at = "send207"
  /\ noising.rank[r].dest < noising.rank[r].nb_ranks
  /\ SendReturned(noising.rank[r].dest)

\* lines 200-208, one iteration: generate the values of rank i and send them
SendNoise(r) ==
  LET o == noising.rank[r]
      i == o.dest
  IN /\ CanSend(r)
     /\ \E dist_noise \in Generated(ReadAt(o.nb_per_rank, i)) :
          LET message == [tag |-> 0, count |-> sendCount(o, i),
                          data |-> dist_noise]
          IN noising' = [noising EXCEPT
               !.rank[r] = [o EXCEPT !.dest = i + 1],
               !.msgs[i] = Append(noising.msgs[i], message),
               !.sends = Append(noising.sends,
                                [field |-> o.field, to |-> i,
                                 count |-> message.count])]
     /\ UNCHANGED densityvars

CanRootReturn(r) ==
  /\ NoisingAlive /\ r = 0 /\ noising.rank[r].at = "send207"
  /\ noising.rank[r].dest = noising.rank[r].nb_ranks
  /\ SendReturned(noising.rank[r].dest)

\* the root returns its noise to run, which adds it to the dataset and calls
\* the barrier of line 298
RootReturn(r) ==
  /\ CanRootReturn(r)
  /\ noising' = [noising EXCEPT !.rank[r] =
                   EnterCollective(noising.rank[r], "barrier298")]
  /\ UNCHANGED densityvars

CanRecv(r) ==
  /\ NoisingAlive /\ noising.rank[r].at = "recv210"
  /\ noising.msgs[r] # << >>

\* MPI_Recv into noise, a buffer of nb_local elements: a longer message is a
\* truncation error, a shorter one leaves the rest of the buffer as it was
recvInto(o, message) ==
  IF message.count > ALen(o.noise)
  THEN [o EXCEPT !.fault = "mpi"]
  ELSE [o EXCEPT !.noise = [k \in DOMAIN o.noise |->
                              IF k < message.count THEN message.data[k]
                              ELSE o.noise[k]]]

\* line 210, then the return to run and the barrier of line 298
RecvNoise(r) ==
  LET o == noising.rank[r]
      message == Head(noising.msgs[r])
      o2 == recvInto(o, message)
  IN /\ CanRecv(r)
     /\ noising' = [noising EXCEPT
          !.rank[r] = IF o2.fault = "none"
                      THEN EnterCollective(o2, "barrier298") ELSE o2,
          !.msgs[r] = Tail(noising.msgs[r]),
          !.recvs[r] = Append(noising.recvs[r],
                              [field |-> o.field, count |-> message.count])]
     /\ UNCHANGED densityvars

\* computeHistogram, lines 243-248: the bin of one noise value
histoIndex(c, v) ==
  LET index == TruncQuot((v - c.dist_min) * c.num_bins, c.dist_max - c.dist_min)
  IN IF index >= c.num_bins THEN index - 1 ELSE index

computeHistogramUB(c, o) ==
  \E k \in DOMAIN o.noise : histoIndex(c, o.noise[k]) \notin 0..(c.num_bins - 1)

\* computeHistogram up to its all-reduce, lines 226-249
localHistogram(c, o) ==
  IF c.asserts /\ ALen(o.noise) = 0
  THEN [o EXCEPT !.fault = "assert"]
  ELSE [o EXCEPT
          !.local_histo = [b \in 0..(c.num_bins - 1) |->
                             Cardinality({k \in DOMAIN o.noise :
                                            histoIndex(c, o.noise[k]) = b})],
          !.ub = computeHistogramUB(c, o)]

CanLeaveBarrier(r, line) ==
  NoisingAlive /\ noising.rank[r].at = line /\ AllIn(r)

\* the first scalar: after the barrier of line 298 the rank fills its local
\* histogram and calls the all-reduce of line 251
HistogramLocal(r) ==
  /\ CanLeaveBarrier(r, "barrier298") /\ noising.rank[r].field = 0
  /\ \E o2 \in Outcomes(localHistogram(noising.conf, noising.rank[r]),
                        computeHistogramUB(noising.conf, noising.rank[r])) :
       noising' = [noising EXCEPT !.rank[r] =
                     IF o2.fault = "none"
                     THEN EnterCollective(o2, "allreduce251") ELSE o2]
  /\ UNCHANGED densityvars

\* element j of the reduction over the ranks from q on
RECURSIVE HistoFrom(_, _)
HistoFrom(j, q) ==
  IF q \notin NoisingRanks THEN 0
  ELSE noising.rank[q].local_histo[j] + HistoFrom(j, q + 1)

RECURSIVE SumValues(_, _)
SumValues(total_histo, j) ==
  IF j \notin DOMAIN total_histo THEN 0
  ELSE total_histo[j] + SumValues(total_histo, j + 1)

\* lines 251-263: the all-reduced counts over their sum
normalise(total_histo) ==
  [j \in DOMAIN total_histo |->
     [count |-> total_histo[j], of |-> SumValues(total_histo, 0)]]

\* lines 251-268: the global histogram, then the barrier of line 268
HistogramGlobal(r) ==
  LET c == noising.conf
      total_histo == [j \in 0..(c.num_bins - 1) |-> HistoFrom(j, 0)]
  IN /\ CanLeaveBarrier(r, "allreduce251")
     /\ noising' = [noising EXCEPT !.rank[r] =
          EnterCollective([noising.rank[r] EXCEPT !.histo = normalise(total_histo)],
                          "barrier268")]
     /\ UNCHANGED densityvars

\* the barrier that follows the barrier of line 'line' in the loop of run
barrierAfter(o, line) ==
  IF line = "barrier298" \/ line = "barrier301" THEN "barrier305"
  ELSE "barrier301"

CanPassBarrier(r) ==
  \/ CanLeaveBarrier(r, "barrier298") /\ noising.rank[r].field # 0
  \/ CanLeaveBarrier(r, "barrier268")
  \/ CanLeaveBarrier(r, "barrier301")

PassBarrier(r) ==
  LET o == noising.rank[r]
  IN /\ CanPassBarrier(r)
     /\ noising' = [noising EXCEPT !.rank[r] =
                      EnterCollective(o, barrierAfter(o, o.at))]
     /\ UNCHANGED densityvars

\* after the barrier of line 305 the loop goes to the next scalar; the noise
\* of the iteration is destroyed
NextScalar(r) ==
  LET o == noising.rank[r]
  IN /\ CanLeaveBarrier(r, "barrier305")
     /\ noising' = [noising EXCEPT !.rank[r] =
                      [o EXCEPT !.field = o.field + 1, !.at = "run",
                                !.noise = NoColumn, !.dest = 0]]
     /\ UNCHANGED densityvars

NoisingNext ==
  \E r \in NoisingRanks :
    \/ CallGather(r)
    \/ LeaveGather(r)
    \/ SendNoise(r)
    \/ RootReturn(r)
    \/ RecvNoise(r)
    \/ HistogramLocal(r)
    \/ HistogramGlobal(r)
    \/ PassBarrier(r)
    \/ NextScalar(r)

SpecNoising == NoisingInit /\ [][NoisingNext]_vars

(***************************************************************************)
(* Properties of the noising run (specification SpecNoising)               *)
(***************************************************************************)
IsNoising == fcall.fn = "Noising::run"

\* rank q is inside computeGaussianNoise
InGaussianNoise(q) == noising.rank[q].at \in {"gather182", "send207", "recv210"}

\* rank q has returned from computeGaussianNoise(f)
NoiseReturned(q, f) ==
  \/ noising.rank[q].field > f
  \/ noising.rank[q].field = f /\ noising.rank[q].at # "run" /\ ~InGaussianNoise(q)

\* the messages of computeGaussianNoise(f) in a log
OfField(log, f) == SelectSeq(log, LAMBDA m : m.field = f)

\* some rank can go on
NoisingCanStep ==
  \E r \in NoisingRanks :
    \/ noising.rank[r].at = "run" /\ noising.rank[r].field < noising.conf.num_scalars
    \/ CanLeaveGather(r) \/ CanSend(r) \/ CanRootReturn(r) \/ CanRecv(r)
    \/ \E line \in {"barrier298", "allreduce251", "barrier268", "barrier301",
                    "barrier305"} : CanLeaveBarrier(r, line)

\* C29: in computeGaussianNoise rank 0 sends exactly one message to each other
\* rank, carrying as many values as that rank's local dataset size; each other
\* rank receives exactly one message; no rank blocks for ever inside the
\* function and no message stays unreceived; and the noise vector a rank
\* returns is as long as its own local dataset.
C29_NoiseDelivered ==
  (IsNoising /\ NoisingAlive) =>
    /\ \A f \in 0..(MaxScalars - 1) :
         (\A q \in NoisingRanks : NoiseReturned(q, f)) =>
           \A q \in NoisingRanks \ {0} :
             LET sent == SelectSeq(OfField(noising.sends, f), LAMBDA m : m.to = q)
                 got == OfField(noising.recvs[q], f)
             IN /\ Len(sent) = 1 /\ Len(got) = 1
                /\ sent[1].count = noising.rank[q].local_count
                /\ got[1].count = sent[1].count
    /\ noising.recvs[0] = << >> /\ noising.msgs[0] = << >>
    /\ \A q \in NoisingRanks :
         /\ (NoiseReturned(q, noising.rank[q].field) =>
               /\ ALen(noising.rank[q].noise) = noising.rank[q].local_count
               /\ noising.msgs[q] = << >>)
         /\ Len(noising.msgs[q]) <= 1
    /\ (\E q \in NoisingRanks : InGaussianNoise(q)) => NoisingCanStep

\* the three ranks hold datasets of different sizes, MPI_Send is synchronous,
\* and every rank has returned from the second call of computeGaussianNoise
C29_Witness ==
  /\ IsNoising /\ NoisingAlive /\ ~noising.conf.eager
  /\ noising.rank[1].local_count # noising.rank[2].local_count
  /\ noising.rank[0].local_count # noising.rank[2].local_count
  /\ \A q \in NoisingRanks : NoiseReturned(q, 1)
  /\ Len(noising.sends) = 4

\* the number of noise values of the ranks from q on
RECURSIVE NoiseValuesFrom(_)
NoiseValuesFrom(q) ==
  IF q \notin NoisingRanks THEN 0
  ELSE noising.rank[q].local_count + NoiseValuesFrom(q + 1)

\* rank r has filled its local histogram and goes on
HistogramFilled(r) ==
  /\ IsNoising /\ noising.rank[r].fault = "none"
  /\ ALen(noising.rank[r].local_histo) > 0

\* C30: in computeHistogram the bin incremented for a noise value is in
\* [0, num_bins) whatever value the generator returned, below dist_min and
\* above dist_max included, and the percentages are taken over a total equal
\* to the number of noise values of all ranks.
C30_HistogramInRange ==
  \A r \in NoisingRanks :
    HistogramFilled(r) =>
      /\ ~noising.rank[r].ub
      /\ \A j \in DOMAIN noising.rank[r].histo :
           noising.rank[r].histo[j].of = NoiseValuesFrom(0)

====
